---- MODULE Spec2Model ----
(***************************************************************************)
(* Tracking server, database-backed variant (src/server.js, 834-1166):     *)
(* the validator validateTrackingData with its helpers (SpecValidate), the *)
(* POST /track handler that inserts one validated row into user_decisions  *)
(* (Spec), and POST /track together with GET /data, GET /health, GET / and *)
(* the error middleware (SpecRoutes).                                      *)
(*                                                                         *)
(* JavaScript values are tagged records.  A string is the tuple of its     *)
(* characters, a number n is kept as n * 1000 (field m), so that the       *)
(* fractions Math.trunc removes and the seconds of a duration are exact,   *)
(* and a Date is kept as whole seconds since 2000-01-01T00:00:00Z (field   *)
(* sec), which leaves every difference of two getTime() values unchanged.  *)
(***************************************************************************)
EXTENDS Integers, Sequences, FiniteSets, TLC

VARIABLES
    vdata,      \* validateTrackingData: the argument `data`
    vpc,        \* validateTrackingData: "start", "checked" (line 988) or "done"
    verrors,    \* validateTrackingData: the local array `errors`
    vresult,    \* validateTrackingData: what it returned or threw
    requests,   \* one record per HTTP request (route, position, body, locals, response)
    table,      \* public.user_decisions: the rows, in insertion order
    nextId,     \* the identity the next inserted row gets (RETURNING id)
    errorLog,   \* the lines logError appended to the day's log file
    createdAt,  \* public.user_decisions: created_at of each row of table
    env,        \* process.env.NODE_ENV
    proc,       \* the Node process: running or exited, and the faults it was handed
    csv         \* the CSV variants: their requests, the CSV file, the file on GitHub

vars == <<vdata, vpc, verrors, vresult, requests, table, nextId, errorLog,
          createdAt, env, proc, csv>>

----------------------------------------------------------------------------
(* Bounds of the model *)

\* a payload differs from one of the two base payloads in at most this many fields
MaxDeviations == 2
\* POST /track requests in one behaviour
MaxRequests == 2
\* faults handed to the process-level handlers in one behaviour
MaxFaults == 2

----------------------------------------------------------------------------
(* JavaScript values *)

Undefined == [t |-> "undefined"]
Null == [t |-> "null"]
NaN == [t |-> "NaN"]
InvalidDate == [t |-> "invalid-date"]
Str(cs) == [t |-> "string", s |-> cs]
Num(m) == [t |-> "number", m |-> m]
Bool(b) == [t |-> "boolean", b |-> b]
DateAt(sec) == [t |-> "date", sec |-> sec]

Digits == {"0", "1", "2", "3", "4", "5", "6", "7", "8", "9"}
Letters ==
    {"a", "b", "c", "d", "e", "f", "g", "h", "i", "j", "k", "l", "m",
     "n", "o", "p", "q", "r", "s", "t", "u", "v", "w", "x", "y", "z",
     "A", "B", "C", "D", "E", "F", "G", "H", "I", "J", "K", "L", "M",
     "N", "O", "P", "Q", "R", "S", "T", "U", "V", "W", "X", "Y", "Z"}
Whitespace == {" ", "\t", "\n"}

DigitValue(c) ==
    CASE c = "0" -> 0 [] c = "1" -> 1 [] c = "2" -> 2 [] c = "3" -> 3
      [] c = "4" -> 4 [] c = "5" -> 5 [] c = "6" -> 6 [] c = "7" -> 7
      [] c = "8" -> 8 [] c = "9" -> 9

DigitChar(d) == <<"0", "1", "2", "3", "4", "5", "6", "7", "8", "9">>[d + 1]

\* the decimal value of a tuple of digit characters
RECURSIVE DigitsValue(_)
DigitsValue(cs) ==
    IF cs = <<>> THEN 0
    ELSE 10 * DigitsValue(SubSeq(cs, 1, Len(cs) - 1)) + DigitValue(cs[Len(cs)])

\* the decimal digits of a natural number
RECURSIVE NatChars(_)
NatChars(n) ==
    IF n < 10 THEN <<DigitChar(n)>>
    ELSE NatChars(n \div 10) \o <<DigitChar(n % 10)>>

Abs(i) == IF i < 0 THEN -i ELSE i

\* !v is false
Truthy(v) ==
    CASE v.t = "undefined" -> FALSE
      [] v.t = "null" -> FALSE
      [] v.t = "NaN" -> FALSE
      [] v.t = "string" -> Len(v.s) > 0
      [] v.t = "number" -> v.m # 0
      [] v.t = "boolean" -> v.b
      [] OTHER -> TRUE

\* String(v), for the values a JSON body holds (a number is printed with its
\* whole part and, when it has one, its fraction without trailing zeros)
FractionChars(f) ==
    IF f = 0 THEN <<>>
    ELSE IF f % 100 = 0 THEN <<".", DigitChar(f \div 100)>>
    ELSE IF f % 10 = 0 THEN <<".", DigitChar(f \div 100), DigitChar((f \div 10) % 10)>>
    ELSE <<".", DigitChar(f \div 100), DigitChar((f \div 10) % 10), DigitChar(f % 10)>>

ToStringChars(v) ==
    CASE v.t = "string" -> v.s
      [] v.t = "undefined" -> <<"u", "n", "d", "e", "f", "i", "n", "e", "d">>
      [] v.t = "null" -> <<"n", "u", "l", "l">>
      [] v.t = "NaN" -> <<"N", "a", "N">>
      [] v.t = "boolean" ->
            IF v.b THEN <<"t", "r", "u", "e">> ELSE <<"f", "a", "l", "s", "e">>
      [] v.t = "number" ->
            (IF v.m < 0 THEN <<"-">> ELSE <<>>)
                \o NatChars(Abs(v.m) \div 1000) \o FractionChars(Abs(v.m) % 1000)

\* String.prototype.trim
RECURSIVE TrimLeft(_)
TrimLeft(cs) ==
    IF cs # <<>> /\ Head(cs) \in Whitespace THEN TrimLeft(Tail(cs)) ELSE cs

RECURSIVE TrimRight(_)
TrimRight(cs) ==
    IF cs # <<>> /\ cs[Len(cs)] \in Whitespace
    THEN TrimRight(SubSeq(cs, 1, Len(cs) - 1))
    ELSE cs

Trim(cs) == TrimRight(TrimLeft(cs))

AllIn(cs, S) == \A i \in 1..Len(cs) : cs[i] \in S

\* an unsigned decimal literal: digits, then at most three fraction digits
IsDecimal(cs) ==
    \E k \in 1..Len(cs) :
        /\ AllIn(SubSeq(cs, 1, k), Digits)
        /\ \/ k = Len(cs)
           \/ /\ k < Len(cs)
              /\ cs[k + 1] = "."
              /\ Len(cs) - (k + 1) \in 1..3
              /\ AllIn(SubSeq(cs, k + 2, Len(cs)), Digits)

DecimalValue(cs) ==
    LET k == CHOOSE i \in 1..Len(cs) :
                 AllIn(SubSeq(cs, 1, i), Digits) /\ (i = Len(cs) \/ cs[i + 1] = ".")
        frac == IF k = Len(cs) THEN <<>> ELSE SubSeq(cs, k + 2, Len(cs))
        scale == CASE Len(frac) = 0 -> 0 [] Len(frac) = 1 -> 100
                   [] Len(frac) = 2 -> 10 [] Len(frac) = 3 -> 1
    IN  DigitsValue(SubSeq(cs, 1, k)) * 1000 + DigitsValue(frac) * scale

\* Number(v).  A string is trimmed; the empty string is 0; a decimal literal
\* with an optional sign is its value; any other text of the payloads is NaN.
StringToNumber(cs) ==
    LET s == Trim(cs)
        signed == s # <<>> /\ Head(s) \in {"+", "-"}
        body == IF signed THEN Tail(s) ELSE s
    IN  IF s = <<>> THEN Num(0)
        ELSE IF ~IsDecimal(body) THEN NaN
        ELSE IF signed /\ Head(s) = "-" THEN Num(-DecimalValue(body))
        ELSE Num(DecimalValue(body))

ToNumber(v) ==
    CASE v.t = "undefined" -> NaN
      [] v.t = "null" -> Num(0)
      [] v.t = "NaN" -> NaN
      [] v.t = "boolean" -> IF v.b THEN Num(1000) ELSE Num(0)
      [] v.t = "number" -> v
      [] v.t = "string" -> StringToNumber(v.s)

\* Math.trunc
MathTrunc(m) == IF m < 0 THEN -((-m) \div 1000) * 1000 ELSE (m \div 1000) * 1000

\* Number.isFinite(n), n a value ToNumber gives
IsFiniteNumber(n) == n.t = "number"

----------------------------------------------------------------------------
(* new Date(v) for the timestamps of the payloads: the text               *)
(* YYYY-MM-DDTHH:MM:SSZ is its instant, any other text is an invalid Date *)

IsLeapYear(y) == (y % 4 = 0 /\ y % 100 # 0) \/ y % 400 = 0

DaysInMonth(y, mo) ==
    CASE mo \in {1, 3, 5, 7, 8, 10, 12} -> 31
      [] mo \in {4, 6, 9, 11} -> 30
      [] mo = 2 -> IF IsLeapYear(y) THEN 29 ELSE 28

\* leap days of the years 1..y
LeapDaysThrough(y) == (y \div 4) - (y \div 100) + (y \div 400)

\* days from 2000-01-01 to the first day of year y
DaysBeforeYear(y) == 365 * (y - 2000) + LeapDaysThrough(y - 1) - LeapDaysThrough(1999)

RECURSIVE DaysBeforeMonth(_, _)
DaysBeforeMonth(y, mo) ==
    IF mo = 1 THEN 0 ELSE DaysBeforeMonth(y, mo - 1) + DaysInMonth(y, mo - 1)

IsIsoInstant(cs) ==
    /\ Len(cs) = 20
    /\ AllIn(SubSeq(cs, 1, 4), Digits) /\ cs[5] = "-"
    /\ AllIn(SubSeq(cs, 6, 7), Digits) /\ cs[8] = "-"
    /\ AllIn(SubSeq(cs, 9, 10), Digits) /\ cs[11] = "T"
    /\ AllIn(SubSeq(cs, 12, 13), Digits) /\ cs[14] = ":"
    /\ AllIn(SubSeq(cs, 15, 16), Digits) /\ cs[17] = ":"
    /\ AllIn(SubSeq(cs, 18, 19), Digits) /\ cs[20] = "Z"
    /\ DigitsValue(SubSeq(cs, 6, 7)) \in 1..12
    /\ DigitsValue(SubSeq(cs, 9, 10)) \in
           1..DaysInMonth(DigitsValue(SubSeq(cs, 1, 4)), DigitsValue(SubSeq(cs, 6, 7)))
    /\ DigitsValue(SubSeq(cs, 12, 13)) \in 0..23
    /\ DigitsValue(SubSeq(cs, 15, 16)) \in 0..59
    /\ DigitsValue(SubSeq(cs, 18, 19)) \in 0..59

IsoInstantSeconds(cs) ==
    LET y == DigitsValue(SubSeq(cs, 1, 4))
        mo == DigitsValue(SubSeq(cs, 6, 7))
        d == DigitsValue(SubSeq(cs, 9, 10))
        days == DaysBeforeYear(y) + DaysBeforeMonth(y, mo) + (d - 1)
    IN  days * 86400 + DigitsValue(SubSeq(cs, 12, 13)) * 3600
            + DigitsValue(SubSeq(cs, 15, 16)) * 60 + DigitsValue(SubSeq(cs, 18, 19))

NewDate(v) ==
    CASE v.t = "date" -> v
      [] v.t = "string" ->
            IF IsIsoInstant(v.s) THEN DateAt(IsoInstantSeconds(v.s)) ELSE InvalidDate
      [] OTHER -> InvalidDate

----------------------------------------------------------------------------
(* Helpers of the database-backed variant *)

\* calculateDecisionTime without the division of line 912: milliseconds
calculateDecisionTime_millis(iconTimestamp, decisionTimestamp) ==
    IF ~Truthy(iconTimestamp) \/ ~Truthy(decisionTimestamp) THEN Null
    ELSE LET startTime == NewDate(iconTimestamp)
             endTime == NewDate(decisionTimestamp)
         IN  IF startTime = InvalidDate \/ endTime = InvalidDate THEN Null
             ELSE Num((endTime.sec - startTime.sec) * 1000 * 1000)

calculateDecisionTime(iconTimestamp, decisionTimestamp) ==
    IF ~Truthy(iconTimestamp) \/ ~Truthy(decisionTimestamp) THEN Null
    ELSE LET startTime == NewDate(iconTimestamp)
             endTime == NewDate(decisionTimestamp)
         IN  IF startTime = InvalidDate \/ endTime = InvalidDate THEN Null
             ELSE Num((endTime.sec - startTime.sec) * 1000)

\* toNullableText clipping the text to 45 characters, as the CSV variants clip
\* ip_address (line 231)
toNullableText_clipped(v) ==
    IF v = Undefined \/ v = Null THEN Null
    ELSE LET s == Trim(ToStringChars(v))
         IN  IF Len(s) > 0 THEN Str(SubSeq(s, 1, IF Len(s) < 45 THEN Len(s) ELSE 45))
             ELSE Null

toNullableText(v) ==
    IF v = Undefined \/ v = Null THEN Null
    ELSE LET s == Trim(ToStringChars(v))
         IN  IF Len(s) > 0 THEN Str(s) ELSE Null

toNullableInt(v) ==
    IF v = Undefined \/ v = Null \/ v = Str(<<>>) THEN Null
    ELSE LET n == ToNumber(v)
         IN  IF IsFiniteNumber(n) THEN Num(MathTrunc(n.m)) ELSE Null

\* toNullableTimestamp keeping the text it was given, as the CSV variants store
\* their timestamps (lines 237-240)
toNullableTimestamp_asText(v) ==
    IF v = Undefined \/ v = Null \/ v = Str(<<>>) THEN Null
    ELSE Str(ToStringChars(v))

toNullableTimestamp(v) ==
    IF v = Undefined \/ v = Null \/ v = Str(<<>>) THEN Null
    ELSE LET d == NewDate(v)
         IN  IF d = InvalidDate THEN Null ELSE d

----------------------------------------------------------------------------
(* validateTrackingData *)

\* errors.join(', ')
RECURSIVE JoinErrors(_)
JoinErrors(errors) ==
    IF errors = <<>> THEN ""
    ELSE IF Len(errors) = 1 THEN errors[1]
    ELSE errors[1] \o ", " \o JoinErrors(Tail(errors))

\* RequiredErrors with the session_id pattern of the CSV variants
RequiredErrors_withPattern(data) ==
    (IF ~Truthy(data.session_id) THEN <<"session_id is required">>
     ELSE IF \A k \in 9..(Len(ToStringChars(data.session_id)) - 2) :
                 \/ SubSeq(ToStringChars(data.session_id), 1, 8)
                        # <<"s", "e", "s", "s", "i", "o", "n", "_">>
                 \/ ~AllIn(SubSeq(ToStringChars(data.session_id), 9, k), Digits)
                 \/ ToStringChars(data.session_id)[k + 1] # "_"
                 \/ ~AllIn(SubSeq(ToStringChars(data.session_id), k + 2,
                                  Len(ToStringChars(data.session_id))),
                           Digits \cup Letters)
     THEN <<"Invalid Session ID format">> ELSE <<>>)
        \o (IF ~Truthy(data.experiment_run_id)
            THEN <<"experiment_run_id is required">> ELSE <<>>)
        \o (IF ~Truthy(data.user_id) THEN <<"user_id is required">> ELSE <<>>)

RequiredErrors(data) ==
    (IF ~Truthy(data.session_id) THEN <<"session_id is required">> ELSE <<>>)
        \o (IF ~Truthy(data.experiment_run_id)
            THEN <<"experiment_run_id is required">> ELSE <<>>)
        \o (IF ~Truthy(data.user_id) THEN <<"user_id is required">> ELSE <<>>)

\* data.user_step ?? 1, through toNullableInt
UserStepInt(data) ==
    toNullableInt(IF data.user_step = Undefined \/ data.user_step = Null
                  THEN Num(1000) ELSE data.user_step)

\* UserStepErrors without the `userStepInt < 1` test
UserStepErrors_nullOnly(data) ==
    IF ~Truthy(UserStepInt(data)) THEN <<"user_step must be an integer >= 1">> ELSE <<>>

UserStepErrors(data) ==
    LET userStepInt == UserStepInt(data)
    IN  IF ~Truthy(userStepInt) \/ userStepInt.m < 1000
        THEN <<"user_step must be an integer >= 1">> ELSE <<>>

\* PermissionErrors with the field required, as in the CSV variants
PermissionErrors_required(data) ==
    IF ~Truthy(data.permission_decision) THEN <<"Permission decision is required">>
    ELSE IF data.permission_decision \notin
                {Str(<<"a", "l", "l", "o", "w">>), Str(<<"b", "l", "o", "c", "k">>),
                 Str(<<"d", "i", "s", "m", "i", "s", "s">>)}
    THEN <<"permission_decision must be allow, block, or dismiss (or omitted)">>
    ELSE <<>>

PermissionErrors(data) ==
    LET permissionDecision == toNullableText(data.permission_decision)
    IN  IF Truthy(permissionDecision)
           /\ permissionDecision \notin
                  {Str(<<"a", "l", "l", "o", "w">>), Str(<<"b", "l", "o", "c", "k">>),
                   Str(<<"d", "i", "s", "m", "i", "s", "s">>)}
        THEN <<"permission_decision must be allow, block, or dismiss (or omitted)">>
        ELSE <<>>

\* ConsentErrors without the membership test
ConsentErrors_anyText(data) == <<>>

ConsentErrors(data) ==
    LET consentDecision == toNullableText(data.consent_decision)
    IN  IF Truthy(consentDecision)
           /\ consentDecision \notin
                  {Str(<<"A", "g", "r", "e", "e">>),
                   Str(<<"D", "i", "s", "a", "g", "r", "e", "e">>)}
        THEN <<"consent_decision must be Agree or Disagree (or omitted)">>
        ELSE <<>>

\* CollectErrors stopping at the first violated rule
CollectErrors_shortCircuit(data) ==
    LET all == RequiredErrors(data) \o UserStepErrors(data)
                   \o PermissionErrors(data) \o ConsentErrors(data)
    IN  IF all = <<>> THEN <<>> ELSE <<all[1]>>

\* CollectErrors with the device_type rule of the CSV variants
CollectErrors_withDeviceType(data) ==
    RequiredErrors(data) \o UserStepErrors(data)
        \o PermissionErrors(data) \o ConsentErrors(data)
        \o (IF ~Truthy(data.device_type) THEN <<"Device type is required">>
            ELSE IF data.device_type \notin
                        {Str(<<"D", "e", "s", "k", "t", "o", "p">>),
                         Str(<<"T", "a", "b", "l", "e", "t">>),
                         Str(<<"M", "o", "b", "i", "l", "e">>)}
            THEN <<"Invalid device type. Must be Desktop, Tablet, or Mobile">>
            ELSE <<>>)

\* CollectErrors with a rule that requires icon_timestamp
CollectErrors_withIconTimestamp(data) ==
    RequiredErrors(data) \o UserStepErrors(data)
        \o PermissionErrors(data) \o ConsentErrors(data)
        \o (IF ~Truthy(data.icon_timestamp) THEN <<"Icon timestamp is required">>
            ELSE <<>>)

\* the array `errors` when line 988 is reached
CollectErrors(data) ==
    RequiredErrors(data) \o UserStepErrors(data)
        \o PermissionErrors(data) \o ConsentErrors(data)

\* ValidatedRecord keeping a decision_time_taken_sec the client supplies
ValidatedRecord_clientTime(data) ==
    LET iconTs == toNullableTimestamp(data.icon_timestamp)
        decisionTs == toNullableTimestamp(data.decision_timestamp)
        decisionTime == IF data.decision_time_taken_sec \in {Undefined, Null}
                        THEN calculateDecisionTime(iconTs, decisionTs)
                        ELSE data.decision_time_taken_sec
    IN  [session_id |-> Str(ToStringChars(data.session_id)),
         user_step |-> UserStepInt(data),
         experiment_run_id |-> Str(ToStringChars(data.experiment_run_id)),
         user_id |-> Str(ToStringChars(data.user_id)),
         ip_address |-> toNullableText(data.ip_address),
         country |-> toNullableText(data.country),
         browser |-> toNullableText(data.browser),
         operating_system |-> toNullableText(data.operating_system),
         device_type |-> toNullableText(data.device_type),
         consent_decision |-> toNullableText(data.consent_decision),
         consent_timestamp |-> toNullableTimestamp(data.consent_timestamp),
         icon_timestamp |-> iconTs,
         permission_decision |-> toNullableText(data.permission_decision),
         decision_timestamp |-> decisionTs,
         decision_time_taken_sec |-> decisionTime,
         survey_clicked |-> toNullableText(data.survey_clicked),
         survey_timestamp |-> toNullableTimestamp(data.survey_timestamp)]

\* the object returned for a payload without errors
ValidatedRecord(data) ==
    LET iconTs == toNullableTimestamp(data.icon_timestamp)
        decisionTs == toNullableTimestamp(data.decision_timestamp)
        decisionTime == calculateDecisionTime(iconTs, decisionTs)
    IN  [session_id |-> Str(ToStringChars(data.session_id)),
         user_step |-> UserStepInt(data),
         experiment_run_id |-> Str(ToStringChars(data.experiment_run_id)),
         user_id |-> Str(ToStringChars(data.user_id)),
         ip_address |-> toNullableText(data.ip_address),
         country |-> toNullableText(data.country),
         browser |-> toNullableText(data.browser),
         operating_system |-> toNullableText(data.operating_system),
         device_type |-> toNullableText(data.device_type),
         consent_decision |-> toNullableText(data.consent_decision),
         consent_timestamp |-> toNullableTimestamp(data.consent_timestamp),
         icon_timestamp |-> iconTs,
         permission_decision |-> toNullableText(data.permission_decision),
         decision_timestamp |-> decisionTs,
         decision_time_taken_sec |-> decisionTime,
         survey_clicked |-> toNullableText(data.survey_clicked),
         survey_timestamp |-> toNullableTimestamp(data.survey_timestamp)]

NoRecord == [t |-> "none"]

\* throw new Error(errors.join(', '))
Thrown(errors) == [threw |-> TRUE, message |-> JoinErrors(errors), record |-> NoRecord]

Returned(data) == [threw |-> FALSE, message |-> "", record |-> ValidatedRecord(data)]

validateTrackingData(data) ==
    LET errors == CollectErrors(data)
    IN  IF Len(errors) > 0 THEN Thrown(errors) ELSE Returned(data)

----------------------------------------------------------------------------
(* Payloads: the values a client may send for each field *)

session_1_abc == Str(<<"s", "e", "s", "s", "i", "o", "n", "_", "1", "_", "a", "b", "c">>)
run_1_abc == Str(<<"r", "u", "n", "_", "1", "_", "a", "b", "c">>)
user_1_abc == Str(<<"u", "s", "e", "r", "_", "1", "_", "a", "b", "c">>)
Text_abc == Str(<<"a", "b", "c">>)
Text_empty == Str(<<>>)
Text_blank == Str(<<" ", " ">>)
Ip_1_2_3_4 == Str(<<"1", ".", "2", ".", "3", ".", "4">>)
\* an address of 46 characters
Ip_46 == Str([i \in 1..46 |-> IF i % 5 = 0 THEN ":" ELSE "f"])
Text_US == Str(<<"U", "S">>)
Text_Chrome == Str(<<"C", "h", "r", "o", "m", "e">>)
Text_macOS == Str(<<"m", "a", "c", "O", "S">>)
Text_Desktop == Str(<<"D", "e", "s", "k", "t", "o", "p">>)
Text_Tablet == Str(<<"T", "a", "b", "l", "e", "t">>)
Text_Mobile == Str(<<"M", "o", "b", "i", "l", "e">>)
Text_Phone == Str(<<"P", "h", "o", "n", "e">>)
Text_Agree == Str(<<"A", "g", "r", "e", "e">>)
Text_Disagree == Str(<<"D", "i", "s", "a", "g", "r", "e", "e">>)
Text_Maybe == Str(<<"M", "a", "y", "b", "e">>)
Text_Agree_padded == Str(<<" ">> \o <<"A", "g", "r", "e", "e">> \o <<" ">>)
Text_allow == Str(<<"a", "l", "l", "o", "w">>)
Text_block == Str(<<"b", "l", "o", "c", "k">>)
Text_dismiss == Str(<<"d", "i", "s", "m", "i", "s", "s">>)
Text_deny == Str(<<"d", "e", "n", "y">>)
Text_true == Str(<<"t", "r", "u", "e">>)
Text_NA == Str(<<"N", "/", "A">>)
Text_2 == Str(<<"2">>)
Text_soon == Str(<<"s", "o", "o", "n">>)
\* 2024-01-01T00:00:SSZ
Instant(s1, s2) ==
    Str(<<"2", "0", "2", "4", "-", "0", "1", "-", "0", "1", "T", "0", "0", ":", "0", "0", ":">> \o <<s1, s2, "Z">>)

\* "2023-12-31T23:59:58Z", seven seconds before Instant("0", "5")
Instant_NewYearsEve ==
    Str(<<"2", "0", "2", "3", "-", "1", "2", "-", "3", "1", "T",
          "2", "3", ":", "5", "9", ":", "5", "8", "Z">>)

FieldNames ==
    <<"session_id", "user_step", "experiment_run_id", "user_id", "ip_address",
      "country", "browser", "operating_system", "device_type", "consent_decision",
      "consent_timestamp", "icon_timestamp", "permission_decision",
      "decision_timestamp", "decision_time_taken_sec", "survey_clicked",
      "survey_timestamp">>

Fields == {FieldNames[i] : i \in 1..Len(FieldNames)}

FieldValues ==
    [f \in Fields |->
        CASE f = "session_id" ->
                <<Undefined, Text_empty, Text_abc, session_1_abc, Num(0), Num(7000)>>
          [] f = "experiment_run_id" -> <<Undefined, Text_abc, run_1_abc>>
          [] f = "user_id" -> <<Undefined, Text_abc, user_1_abc>>
          [] f = "user_step" ->
                <<Undefined, Null, Text_empty, Num(0), Num(1000), Num(2000), Num(-1000),
                 Num(1500), Num(500), Text_2, Text_abc, Bool(TRUE), Bool(FALSE)>>
          [] f = "ip_address" -> <<Undefined, Text_blank, Ip_1_2_3_4, Ip_46>>
          [] f = "country" -> <<Undefined, Text_US>>
          [] f = "browser" -> <<Undefined, Text_Chrome>>
          [] f = "operating_system" -> <<Undefined, Text_macOS>>
          [] f = "device_type" ->
                <<Undefined, Text_Desktop, Text_Tablet, Text_Mobile, Text_Phone>>
          [] f = "consent_decision" ->
                <<Undefined, Null, Text_empty, Text_blank, Text_Agree, Text_Disagree,
                 Text_Maybe, Text_Agree_padded>>
          [] f = "consent_timestamp" -> <<Undefined, Instant("0", "0")>>
          [] f = "icon_timestamp" ->
                <<Undefined, Instant("0", "0"), Instant("1", "0"), Text_soon,
                 Instant_NewYearsEve>>
          [] f = "permission_decision" ->
                <<Undefined, Null, Text_empty, Text_blank, Text_allow, Text_block,
                 Text_dismiss, Text_deny>>
          [] f = "decision_timestamp" -> <<Undefined, Instant("0", "5"), Text_soon>>
          [] f = "decision_time_taken_sec" -> <<Undefined, Num(99000)>>
          [] f = "survey_clicked" ->
                <<Undefined, Text_true, Text_NA, Bool(TRUE), Bool(FALSE)>>
          [] f = "survey_timestamp" -> <<Undefined, Instant("0", "7"), Text_NA>>]

\* a payload in which every rule of the validator holds
BasePayload ==
    [f \in Fields |->
        CASE f = "session_id" -> session_1_abc
          [] f = "experiment_run_id" -> run_1_abc
          [] f = "user_id" -> user_1_abc
          [] f = "ip_address" -> Ip_1_2_3_4
          [] f = "country" -> Text_US
          [] f = "browser" -> Text_Chrome
          [] f = "operating_system" -> Text_macOS
          [] f = "device_type" -> Text_Desktop
          [] f = "consent_decision" -> Text_Agree
          [] f = "consent_timestamp" -> Instant("0", "0")
          [] f = "icon_timestamp" -> Instant("0", "0")
          [] f = "permission_decision" -> Text_allow
          [] f = "decision_timestamp" -> Instant("0", "5")
          [] OTHER -> Undefined]

\* a payload in which every rule of the validator fails
WorstPayload ==
    [f \in Fields |->
        CASE f = "user_step" -> Num(0)
          [] f = "consent_decision" -> Text_Maybe
          [] f = "permission_decision" -> Text_deny
          [] OTHER -> Undefined]

BasePayloads == {BasePayload, WorstPayload}

\* the changes of at most k fields, each <<i, j>> giving field FieldNames[i] the
\* j-th of its values, the fields in increasing order from `from` on
RECURSIVE Deviations(_, _)
Deviations(k, from) ==
    IF k = 0 THEN {<<>>}
    ELSE {<<>>} \cup
         UNION {LET rest == Deviations(k - 1, i + 1)
                IN  UNION {{<<<<i, j>>>> \o d : d \in rest}
                           : j \in 1..Len(FieldValues[FieldNames[i]])}
                : i \in from..Len(FieldNames)}

RECURSIVE Deviate(_, _)
Deviate(payload, d) ==
    IF d = <<>> THEN payload
    ELSE Deviate([payload EXCEPT ![FieldNames[d[1][1]]] =
                                     FieldValues[FieldNames[d[1][1]]][d[1][2]]],
                 Tail(d))

\* the bodies the POST /track requests of a behaviour carry
TrackBodies ==
    {BasePayload,
     [BasePayload EXCEPT !["user_step"] = Num(2000), !["icon_timestamp"] = Undefined],
     [BasePayload EXCEPT !["ip_address"] = Undefined, !["device_type"] = Text_Phone],
     [BasePayload EXCEPT !["session_id"] = Undefined],
     [BasePayload EXCEPT !["session_id"] = Undefined, !["consent_decision"] = Text_Maybe],
     WorstPayload}

----------------------------------------------------------------------------
(* The validator, step by step *)

\* a fault that has not occurred
NewFault == [pc |-> "none", type |-> "none", error |-> Undefined]

\* the process after startServer
NewProcess ==
    [state |-> "running", exitCode |-> Null,
     faults |-> [f \in 1..MaxFaults |-> NewFault]]

\* a request that has not arrived
NewRequest ==
    [pc |-> "waiting", route |-> "none", body |-> Undefined, validated |-> NoRecord,
     failure |-> "none", error |-> "", inserts |-> 0, id |-> 0, rows |-> <<>>,
     sent |-> 0, response |-> NoRecord]

\* the values of NODE_ENV: unset, 'development' or 'production'
Environments ==
    {Undefined, Str(<<"d", "e", "v", "e", "l", "o", "p", "m", "e", "n", "t">>),
     Str(<<"p", "r", "o", "d", "u", "c", "t", "i", "o", "n">>)}

InitServer ==
    /\ requests = [r \in 1..MaxRequests |-> NewRequest]
    /\ \/ table = <<>> /\ nextId = 1 /\ createdAt = <<>>
       \/ /\ table = <<[id |-> 1] @@ ValidatedRecord(BasePayload)>>
          /\ nextId = 2 /\ createdAt = <<1>>
    /\ errorLog = <<>>
    /\ proc = NewProcess
    /\ csv = NoRecord

InitValidate ==
    /\ \E base \in BasePayloads :
           \E d \in Deviations(MaxDeviations, 1) : vdata = Deviate(base, d)
    /\ vpc = "start"
    /\ verrors = <<>>
    /\ vresult = NoRecord
    /\ requests = [r \in 1..MaxRequests |-> NewRequest]
    /\ table = <<>>
    /\ nextId = 1
    /\ errorLog = <<>>
    /\ createdAt = <<>>
    /\ env = Undefined
    /\ proc = NewProcess
    /\ csv = NoRecord

\* lines 958-986: every rule is evaluated and its message pushed
ValidateCheck ==
    /\ vpc = "start"
    /\ verrors' = CollectErrors(vdata)
    /\ vpc' = "checked"
    /\ UNCHANGED <<vdata, vresult, requests, table, nextId, errorLog, createdAt, env, proc, csv>>

\* lines 988-990
ValidateThrow ==
    /\ vpc = "checked"
    /\ Len(verrors) > 0
    /\ vresult' = Thrown(verrors)
    /\ vpc' = "done"
    /\ UNCHANGED <<vdata, verrors, requests, table, nextId, errorLog, createdAt, env, proc, csv>>

\* lines 992-1019
ValidateReturn ==
    /\ vpc = "checked"
    /\ Len(verrors) = 0
    /\ vresult' = Returned(vdata)
    /\ vpc' = "done"
    /\ UNCHANGED <<vdata, verrors, requests, table, nextId, errorLog, createdAt, env, proc, csv>>

NextValidate == ValidateCheck \/ ValidateThrow \/ ValidateReturn

SpecValidate == InitValidate /\ [][NextValidate]_vars

----------------------------------------------------------------------------
(* POST /track *)

Requests == 1..MaxRequests

\* the errors pool.query rejects with
DbErrors == {"Connection terminated unexpectedly"}

Init ==
    /\ vdata = BasePayload
    /\ vpc = "off"
    /\ verrors = <<>>
    /\ vresult = NoRecord
    /\ InitServer
    /\ env = Undefined

\* TrackOkResponse answering result.rowCount in place of the returned id
TrackOkResponse_rowCount(id) ==
    [status |-> 200,
     body |-> [success |-> TRUE, message |-> "Decision recorded successfully", id |-> 1]]

\* lines 1087-1091
TrackOkResponse(id) ==
    [status |-> 200,
     body |-> [success |-> TRUE, message |-> "Decision recorded successfully", id |-> id]]

\* lines 1097-1101
TrackErrorStatus == 400

TrackErrorResponse(message) ==
    [status |-> TrackErrorStatus,
     body |-> [success |-> FALSE, error |-> "Failed to record decision",
               message |-> message]]

\* InsertedRow with a column list that names only the NOT NULL columns
InsertedRow_requiredOnly(id, validatedData) ==
    [id |-> id, session_id |-> validatedData.session_id,
     user_step |-> validatedData.user_step,
     experiment_run_id |-> validatedData.experiment_run_id,
     user_id |-> validatedData.user_id]

\* the row the INSERT of lines 1040-1085 writes: the seventeen values and its id
InsertedRow(id, validatedData) == [id |-> id] @@ validatedData

\* lines 1037-1085 up to the await, or 1093-1095 when the validator throws:
\* the body is validated, then either the INSERT is sent or logError is called
TrackReceive(r, body) ==
    /\ requests[r].pc = "waiting"
    /\ LET v == validateTrackingData(body)
       IN  requests' =
               [requests EXCEPT ![r] =
                   IF v.threw
                   THEN [@ EXCEPT !.pc = "log", !.route = "/track", !.body = body,
                                  !.failure = "validation", !.error = v.message]
                   ELSE [@ EXCEPT !.pc = "insert", !.route = "/track", !.body = body,
                                  !.validated = v.record, !.inserts = 1]]
    /\ UNCHANGED <<vdata, vpc, verrors, vresult, table, nextId, errorLog, createdAt, env, proc, csv>>

\* InsertCommit of an INSERT ... ON CONFLICT (session_id) DO UPDATE: a row of
\* the same session is overwritten
InsertCommit_upsert(r) ==
    /\ requests[r].pc = "insert"
    /\ LET same == {i \in 1..Len(table) :
                       table[i].session_id = requests[r].validated.session_id}
       IN  IF same = {}
           THEN /\ table' = Append(table, [id |-> nextId] @@ requests[r].validated)
                /\ createdAt' = Append(createdAt,
                                       IF createdAt = <<>> THEN 1
                                       ELSE createdAt[Len(createdAt)] + 1)
                /\ nextId' = nextId + 1
                /\ requests' = [requests EXCEPT ![r] =
                                   [@ EXCEPT !.pc = "inserted", !.id = nextId]]
           ELSE LET i == CHOOSE i \in same : TRUE
                IN  /\ table' = [table EXCEPT ![i] =
                                    [id |-> table[i].id] @@ requests[r].validated]
                    /\ UNCHANGED <<createdAt, nextId>>
                    /\ requests' = [requests EXCEPT ![r] =
                                       [@ EXCEPT !.pc = "inserted", !.id = table[i].id]]
    /\ UNCHANGED <<vdata, vpc, verrors, vresult, errorLog, env, proc, csv>>

\* InsertCommit with the array `values` kept in a variable all requests share:
\* the row holds the values of the latest request that reached line 1085
InsertCommit_sharedValues(r) ==
    /\ requests[r].pc = "insert"
    /\ LET latest == CHOOSE q \in Requests :
                         /\ requests[q].pc = "insert"
                         /\ \A p \in Requests : requests[p].pc = "insert" => p <= q
       IN  table' = Append(table, [id |-> nextId] @@ requests[latest].validated)
    /\ createdAt' = Append(createdAt,
                           IF createdAt = <<>> THEN 1 ELSE createdAt[Len(createdAt)] + 1)
    /\ nextId' = nextId + 1
    /\ requests' = [requests EXCEPT ![r] = [@ EXCEPT !.pc = "inserted", !.id = nextId]]
    /\ UNCHANGED <<vdata, vpc, verrors, vresult, errorLog, env, proc, csv>>

\* created_at of the latest row; 0 while the table is empty
LastCreatedAt == IF createdAt = <<>> THEN 0 ELSE createdAt[Len(createdAt)]

\* the database executes the INSERT and returns the new row's id; created_at,
\* which the INSERT does not set, is the database's clock, which may not have
\* advanced since the previous row
InsertCommit(r) ==
    /\ requests[r].pc = "insert"
    /\ table' = Append(table, InsertedRow(nextId, requests[r].validated))
    /\ \E at \in {LastCreatedAt, LastCreatedAt + 1} : createdAt' = Append(createdAt, at)
    /\ nextId' = nextId + 1
    /\ requests' = [requests EXCEPT ![r] = [@ EXCEPT !.pc = "inserted", !.id = nextId]]
    /\ UNCHANGED <<vdata, vpc, verrors, vresult, errorLog, env, proc, csv>>

\* pool.query rejects; the catch block of line 1093 calls logError
InsertFail(r, e) ==
    /\ requests[r].pc = "insert"
    /\ requests' = [requests EXCEPT ![r] =
                       [@ EXCEPT !.pc = "log", !.failure = "database", !.error = e]]
    /\ UNCHANGED <<vdata, vpc, verrors, vresult, table, nextId, errorLog, createdAt, env, proc, csv>>

\* TrackRespondOk of a handler in which a statement after res.json throws: the
\* catch block of line 1093 answers a second time
TrackRespondOk_answeredTwice(r) ==
    /\ requests[r].pc = "inserted"
    /\ requests' = [requests EXCEPT ![r] =
                       [@ EXCEPT !.pc = "done", !.sent = @ + 2,
                                 !.response = TrackErrorResponse("thrown after res.json")]]
    /\ UNCHANGED <<vdata, vpc, verrors, vresult, table, nextId, errorLog, createdAt, env, proc, csv>>

\* lines 1087-1091, after the await of line 1085
TrackRespondOk(r) ==
    /\ requests[r].pc = "inserted"
    /\ requests' = [requests EXCEPT ![r] =
                       [@ EXCEPT !.pc = "done", !.sent = @ + 1,
                                 !.response = TrackOkResponse(requests[r].id)]]
    /\ UNCHANGED <<vdata, vpc, verrors, vresult, table, nextId, errorLog, createdAt, env, proc, csv>>

\* TrackRespondError with a logError that lets the failure of its append
\* escape: the catch block is left before its res.json
TrackRespondError_logThrows(r, appended) ==
    /\ requests[r].pc = "log"
    /\ errorLog' = IF appended
                   THEN Append(errorLog, [error |-> requests[r].error,
                                          requestData |-> requests[r].body,
                                          endpoint |-> "/track"])
                   ELSE errorLog
    /\ requests' = [requests EXCEPT ![r] =
                       IF appended
                       THEN [@ EXCEPT !.pc = "done", !.sent = @ + 1,
                                      !.response = TrackErrorResponse(requests[r].error)]
                       ELSE [@ EXCEPT !.pc = "done"]]
    /\ UNCHANGED <<vdata, vpc, verrors, vresult, table, nextId, createdAt, env, proc, csv>>

\* logError (lines 939-954) appends its line or swallows the failure of the
\* append; then lines 1097-1101 answer
TrackRespondError(r, appended) ==
    /\ requests[r].pc = "log"
    /\ errorLog' = IF appended
                   THEN Append(errorLog, [error |-> requests[r].error,
                                          requestData |-> requests[r].body,
                                          endpoint |-> "/track"])
                   ELSE errorLog
    /\ requests' = [requests EXCEPT ![r] =
                       [@ EXCEPT !.pc = "done",
                                 !.sent = @ + 1,
                                 !.response = TrackErrorResponse(requests[r].error)]]
    /\ UNCHANGED <<vdata, vpc, verrors, vresult, table, nextId, createdAt, env, proc, csv>>

Next ==
    \E r \in Requests :
        \/ \E body \in TrackBodies : TrackReceive(r, body)
        \/ InsertCommit(r)
        \/ \E e \in DbErrors : InsertFail(r, e)
        \/ TrackRespondOk(r)
        \/ \E appended \in BOOLEAN : TrackRespondError(r, appended)

Spec == Init /\ [][Next]_vars

----------------------------------------------------------------------------
(* GET /data, GET /health, GET / and the error middleware *)

\* a payload the validator accepts and stores differently from what was sent
MessyPayload ==
    [BasePayload EXCEPT !["user_step"] = Num(1500),
                        !["ip_address"] = Text_blank,
                        !["consent_decision"] = Text_Agree_padded,
                        !["icon_timestamp"] = Text_soon,
                        !["decision_time_taken_sec"] = Num(99000),
                        !["survey_clicked"] = Bool(TRUE),
                        !["survey_timestamp"] = Instant("0", "7")]

\* the bodies of the POST /track requests that share the server with the other
\* routes
ServerBodies == {BasePayload, MessyPayload, WorstPayload}

\* the errors express.json hands to the error middleware (line 891)
ParseErrors == {"Unexpected end of JSON input", "request entity too large"}

\* req.body when express.json has not parsed a body
EmptyObject == [t |-> "object"]

\* SELECT *: the rows of the table with every column
StoredRows == [i \in 1..Len(table) |-> table[i] @@ [created_at |-> createdAt[i]]]

\* the orders of 1..n
Orders(n) == {p \in [1..n -> 1..n] : \A i, j \in 1..n : i # j => p[i] # p[j]}

\* ORDER BY created_at ASC
SelectResults_ascending ==
    {[i \in 1..Len(table) |-> StoredRows[p[i]]] :
        p \in {q \in Orders(Len(table)) :
                  \A i, j \in 1..Len(table) :
                      i < j => createdAt[q[i]] <= createdAt[q[j]]}}

\* line 1027, ORDER BY created_at DESC: the results the database may return,
\* rows with the same created_at in any order
SelectResults ==
    {[i \in 1..Len(table) |-> StoredRows[p[i]]] :
        p \in {q \in Orders(Len(table)) :
                  \A i, j \in 1..Len(table) :
                      i < j => createdAt[q[i]] >= createdAt[q[j]]}}

\* line 1029
DataOkResponse(rows) == [status |-> 200, body |-> [success |-> TRUE, data |-> rows]]

\* line 1032
DataErrorResponse ==
    [status |-> 500,
     body |-> [success |-> FALSE, error |-> "Failed to read data from database"]]

\* lines 1108-1112; the timestamp of the answer is left out
HealthOkResponse(environment) ==
    [status |-> 200,
     body |-> [status |-> "healthy",
               environment |-> IF Truthy(environment) THEN environment
                               ELSE Str(<<"d", "e", "v", "e", "l", "o", "p", "m", "e", "n", "t">>)]]

\* line 1115
HealthErrorResponse ==
    [status |-> 500,
     body |-> [status |-> "unhealthy", error |-> "Could not access PostgreSQL database"]]

\* line 1120
RootResponse == [status |-> 200, body |-> "Tracking server is running successfully!"]

\* the answer of the error middleware of the CSV variants (lines 363-367)
MiddlewareResponse_withMessage(message, environment) ==
    [status |-> 500,
     body |-> [success |-> FALSE, error |-> "Internal server error",
               message |-> IF environment = Str(<<"d", "e", "v", "e", "l", "o", "p",
                                                  "m", "e", "n", "t">>)
                           THEN message ELSE "An error occurred"]]

\* line 1126
MiddlewareResponse(message, environment) ==
    [status |-> 500, body |-> [success |-> FALSE, error |-> "Internal server error"]]

\* lines 1024-1028: GET /data arrives and the database executes the SELECT
DataSelectOk(r) ==
    /\ requests[r].pc = "waiting"
    /\ \E rows \in SelectResults :
           requests' = [requests EXCEPT ![r] =
                           [@ EXCEPT !.pc = "selected", !.route = "/data", !.rows = rows]]
    /\ UNCHANGED <<vdata, vpc, verrors, vresult, table, nextId, errorLog, createdAt, env, proc, csv>>

\* pool.query rejects; the catch block of line 1030 calls logError
DataSelectFail(r, e) ==
    /\ requests[r].pc = "waiting"
    /\ requests' = [requests EXCEPT ![r] =
                       [@ EXCEPT !.pc = "dataLog", !.route = "/data",
                                 !.failure = "database", !.error = e]]
    /\ UNCHANGED <<vdata, vpc, verrors, vresult, table, nextId, errorLog, createdAt, env, proc, csv>>

\* line 1029, after the await
DataRespondOk(r) ==
    /\ requests[r].pc = "selected"
    /\ requests' = [requests EXCEPT ![r] =
                       [@ EXCEPT !.pc = "done",
                                 !.sent = @ + 1,
                                 !.response = DataOkResponse(requests[r].rows)]]
    /\ UNCHANGED <<vdata, vpc, verrors, vresult, table, nextId, errorLog, createdAt, env, proc, csv>>

\* lines 1031-1032: logError appends its line or swallows the failure; then
\* the handler answers
DataRespondError(r, appended) ==
    /\ requests[r].pc = "dataLog"
    /\ errorLog' = IF appended
                   THEN Append(errorLog, [error |-> requests[r].error,
                                          requestData |-> Null, endpoint |-> "/data"])
                   ELSE errorLog
    /\ requests' = [requests EXCEPT ![r] =
                       [@ EXCEPT !.pc = "done", !.sent = @ + 1,
                                 !.response = DataErrorResponse]]
    /\ UNCHANGED <<vdata, vpc, verrors, vresult, table, nextId, createdAt, env, proc, csv>>

\* HealthOk of a handler that pings with SELECT count(*) and takes an empty
\* table for a failure
HealthOk_countingRows(r) ==
    /\ requests[r].pc = "waiting"
    /\ requests' = [requests EXCEPT ![r] =
                       [@ EXCEPT !.pc = "done", !.route = "/health",
                                 !.sent = @ + 1,
                                 !.response = IF Len(table) = 0 THEN HealthErrorResponse
                                              ELSE HealthOkResponse(env)]]
    /\ UNCHANGED <<vdata, vpc, verrors, vresult, table, nextId, errorLog, createdAt, env, proc, csv>>

\* lines 1106-1112: GET /health arrives, SELECT 1 succeeds and the handler answers
HealthOk(r) ==
    /\ requests[r].pc = "waiting"
    /\ requests' = [requests EXCEPT ![r] =
                       [@ EXCEPT !.pc = "done", !.route = "/health",
                                 !.sent = @ + 1,
                                 !.response = HealthOkResponse(env)]]
    /\ UNCHANGED <<vdata, vpc, verrors, vresult, table, nextId, errorLog, createdAt, env, proc, csv>>

\* SELECT 1 fails; the catch block of line 1113 calls logError
HealthFail(r, e) ==
    /\ requests[r].pc = "waiting"
    /\ requests' = [requests EXCEPT ![r] =
                       [@ EXCEPT !.pc = "healthLog", !.route = "/health",
                                 !.failure = "database", !.error = e]]
    /\ UNCHANGED <<vdata, vpc, verrors, vresult, table, nextId, errorLog, createdAt, env, proc, csv>>

\* lines 1114-1115
HealthRespondError(r, appended) ==
    /\ requests[r].pc = "healthLog"
    /\ errorLog' = IF appended
                   THEN Append(errorLog, [error |-> requests[r].error,
                                          requestData |-> Null, endpoint |-> "/health"])
                   ELSE errorLog
    /\ requests' = [requests EXCEPT ![r] =
                       [@ EXCEPT !.pc = "done", !.sent = @ + 1,
                                 !.response = HealthErrorResponse]]
    /\ UNCHANGED <<vdata, vpc, verrors, vresult, table, nextId, createdAt, env, proc, csv>>

\* lines 1119-1121
RootRespond(r) ==
    /\ requests[r].pc = "waiting"
    /\ requests' = [requests EXCEPT ![r] =
                       [@ EXCEPT !.pc = "done", !.route = "/", !.sent = @ + 1,
                                 !.response = RootResponse]]
    /\ UNCHANGED <<vdata, vpc, verrors, vresult, table, nextId, errorLog, createdAt, env, proc, csv>>

\* lines 1123-1127: express.json fails on the body of a request and the error
\* middleware answers; logError is called without await, so that its append
\* is still to come when the answer is sent
MiddlewareRespond(r, e) ==
    /\ requests[r].pc = "waiting"
    /\ requests' = [requests EXCEPT ![r] =
                       [@ EXCEPT !.pc = "middlewareLog", !.route = "error",
                                 !.failure = "middleware", !.error = e,
                                 !.sent = @ + 1,
                                 !.response = MiddlewareResponse(e, env)]]
    /\ UNCHANGED <<vdata, vpc, verrors, vresult, table, nextId, errorLog, createdAt, env, proc, csv>>

\* the append of the logError call of line 1125 succeeds or fails
MiddlewareLog(r, appended) ==
    /\ requests[r].pc = "middlewareLog"
    /\ errorLog' = IF appended
                   THEN Append(errorLog, [error |-> requests[r].error,
                                          requestData |-> EmptyObject,
                                          url |-> "/track", method |-> "POST"])
                   ELSE errorLog
    /\ requests' = [requests EXCEPT ![r] = [@ EXCEPT !.pc = "done"]]
    /\ UNCHANGED <<vdata, vpc, verrors, vresult, table, nextId, createdAt, env, proc, csv>>

InitRoutes ==
    /\ vdata = BasePayload
    /\ vpc = "off"
    /\ verrors = <<>>
    /\ vresult = NoRecord
    /\ InitServer
    /\ env \in Environments

NextRoutes ==
    \E r \in Requests :
        \/ \E body \in ServerBodies : TrackReceive(r, body)
        \/ InsertCommit(r)
        \/ \E e \in DbErrors : InsertFail(r, e)
        \/ TrackRespondOk(r)
        \/ \E appended \in BOOLEAN : TrackRespondError(r, appended)
        \/ DataSelectOk(r)
        \/ \E e \in DbErrors : DataSelectFail(r, e)
        \/ DataRespondOk(r)
        \/ \E appended \in BOOLEAN : DataRespondError(r, appended)
        \/ HealthOk(r)
        \/ \E e \in DbErrors : HealthFail(r, e)
        \/ \E appended \in BOOLEAN : HealthRespondError(r, appended)
        \/ RootRespond(r)
        \/ \E e \in ParseErrors : MiddlewareRespond(r, e)
        \/ \E appended \in BOOLEAN : MiddlewareLog(r, appended)

SpecRoutes == InitRoutes /\ [][NextRoutes]_vars

\* the steps of request r that wait for the database or for the log file: the
\* promise of pool.query or of fs.appendFile settles and the handler goes on
Returns(r) ==
    \/ InsertCommit(r)
    \/ \E e \in DbErrors : InsertFail(r, e)
    \/ TrackRespondOk(r)
    \/ \E appended \in BOOLEAN : TrackRespondError(r, appended)
    \/ DataRespondOk(r)
    \/ \E appended \in BOOLEAN : DataRespondError(r, appended)
    \/ \E appended \in BOOLEAN : HealthRespondError(r, appended)
    \/ \E appended \in BOOLEAN : MiddlewareLog(r, appended)

----------------------------------------------------------------------------
(* The process-level handlers (lines 1129-1138) *)

Faults == 1..MaxFaults

\* new Error(message)
ErrorObject(message) == [t |-> "error", message |-> message]

\* what reaches the two handlers: the Error objects thrown and rejected with
\* by the server's code and by its libraries
ThrownValues == {ErrorObject("boom"), ErrorObject("Connection terminated unexpectedly")}

\* the faults are numbered in the order they occur
NextFault(f) ==
    /\ proc.faults[f].pc = "none"
    /\ \A g \in Faults : g < f => proc.faults[g].pc # "none"

\* the handler of the event is called with the value v: console.error, then
\* logError(v, null, {type}) runs up to its await of fs.appendFile
HandlerCalled(f, type, v) ==
    proc' = [proc EXCEPT !.faults[f] =
                [pc |-> "logging", type |-> type, error |-> v]]

\* the line logError appends for a process-level fault
FaultLogLine(f) ==
    [error |-> proc.faults[f].error.message, requestData |-> Null,
     type |-> proc.faults[f].type]

\* an exception reaches the event loop: line 1134
UncaughtException(f, v) ==
    /\ proc.state = "running"
    /\ NextFault(f)
    /\ HandlerCalled(f, "uncaughtException", v)
    /\ UNCHANGED <<vdata, vpc, verrors, vresult, requests, table, nextId,
                   errorLog, createdAt, env, csv>>

\* lines 1136-1137: the await of logError returns, the line appended or the
\* failure of the append swallowed (lines 949-953), and process.exit(1) runs
ExceptionLogged(f, appended) ==
    /\ proc.state = "running"
    /\ proc.faults[f].pc = "logging"
    /\ proc.faults[f].type = "uncaughtException"
    /\ errorLog' = IF appended THEN Append(errorLog, FaultLogLine(f)) ELSE errorLog
    /\ proc' = [proc EXCEPT !.faults[f].pc = "done",
                            !.state = "exited", !.exitCode = 1]
    /\ UNCHANGED <<vdata, vpc, verrors, vresult, requests, table, nextId,
                   createdAt, env, csv>>

\* a promise is rejected and nothing handles it: line 1129
UnhandledRejection(f, v) ==
    /\ proc.state = "running"
    /\ NextFault(f)
    /\ HandlerCalled(f, "unhandledRejection", v)
    /\ UNCHANGED <<vdata, vpc, verrors, vresult, requests, table, nextId,
                   errorLog, createdAt, env, csv>>

\* unhandledRejection handler that ends as the uncaughtException handler does
RejectionLogged_exits(f, appended) ==
    /\ proc.state = "running"
    /\ proc.faults[f].pc = "logging"
    /\ proc.faults[f].type = "unhandledRejection"
    /\ errorLog' = IF appended THEN Append(errorLog, FaultLogLine(f)) ELSE errorLog
    /\ proc' = [proc EXCEPT !.faults[f].pc = "done",
                            !.state = "exited", !.exitCode = 1]
    /\ UNCHANGED <<vdata, vpc, verrors, vresult, requests, table, nextId,
                   createdAt, env, csv>>

\* line 1131: the await of logError returns and the handler ends
RejectionLogged(f, appended) ==
    /\ proc.state = "running"
    /\ proc.faults[f].pc = "logging"
    /\ proc.faults[f].type = "unhandledRejection"
    /\ errorLog' = IF appended THEN Append(errorLog, FaultLogLine(f)) ELSE errorLog
    /\ proc' = [proc EXCEPT !.faults[f].pc = "done"]
    /\ UNCHANGED <<vdata, vpc, verrors, vresult, requests, table, nextId,
                   createdAt, env, csv>>

\* the server answers GET /health and GET / as long as the process runs
Serve(r) ==
    /\ proc.state = "running"
    /\ \/ HealthOk(r)
       \/ \E e \in DbErrors : HealthFail(r, e)
       \/ \E appended \in BOOLEAN : HealthRespondError(r, appended)
       \/ RootRespond(r)

\* the server after startServer, its table empty
InitProcess ==
    /\ InitRoutes
    /\ table = <<>>
    /\ env = Undefined

NextProcess ==
    \/ \E f \in Faults, v \in ThrownValues : UncaughtException(f, v)
    \/ \E f \in Faults, appended \in BOOLEAN : ExceptionLogged(f, appended)
    \/ \E f \in Faults, v \in ThrownValues : UnhandledRejection(f, v)
    \/ \E f \in Faults, appended \in BOOLEAN : RejectionLogged(f, appended)
    \/ \E r \in Requests : Serve(r)

SpecProcess == InitProcess /\ [][NextProcess]_vars

----------------------------------------------------------------------------

(* The rules of the specification's data model, as the CSV variants of the  *)
(* validator check them (lines 165-225)                                     *)

\* /^<prefix>\d+_[a-zA-Z0-9]+$/.test(v)
MatchesIdPattern(prefix, v) ==
    LET cs == ToStringChars(v)
        n == Len(prefix)
    IN  \E k \in (n + 1)..(Len(cs) - 2) :
            /\ SubSeq(cs, 1, n) = prefix
            /\ AllIn(SubSeq(cs, n + 1, k), Digits)
            /\ cs[k + 1] = "_"
            /\ AllIn(SubSeq(cs, k + 2, Len(cs)), Digits \cup Letters)

IdPrefix(f) ==
    CASE f = "session_id" -> <<"s", "e", "s", "s", "i", "o", "n", "_">>
      [] f = "experiment_run_id" -> <<"r", "u", "n", "_">>
      [] f = "user_id" -> <<"u", "s", "e", "r", "_">>

IdFields == {"session_id", "experiment_run_id", "user_id"}

MaxIpLength == 45

DeviceTypes == {Text_Desktop, Text_Tablet, Text_Mobile}
ConsentDecisions == {Text_Agree, Text_Disagree}
PermissionDecisions == {Text_allow, Text_block, Text_dismiss}

RequiredFields ==
    {"session_id", "experiment_run_id", "user_id", "ip_address", "country", "browser",
     "operating_system", "device_type", "consent_decision", "consent_timestamp",
     "permission_decision", "decision_timestamp"}

\* field f of the payload is missing or malformed
FieldProblem(f, data) ==
    \/ ~Truthy(data[f])
    \/ f \in IdFields /\ ~MatchesIdPattern(IdPrefix(f), data[f])
    \/ f = "ip_address" /\ Len(ToStringChars(data[f])) > MaxIpLength
    \/ f = "device_type" /\ data[f] \notin DeviceTypes
    \/ f = "consent_decision" /\ data[f] \notin ConsentDecisions
    \/ f = "permission_decision" /\ data[f] \notin PermissionDecisions

----------------------------------------------------------------------------
(* The rules the database-backed validator checks, stated on the payload *)

\* absent: no value, or a value that is empty, 0 or false
Missing(v) == v \in {Undefined, Null, Text_empty, Num(0), Bool(FALSE)}

\* absent, or text that is empty once trimmed
Blank(v) == v \in {Undefined, Null} \/ (v.t = "string" /\ Trim(v.s) = <<>>)

\* the integer a supplied user_step is coerced to; none for NaN
CoercedStep(v) ==
    LET n == ToNumber(v)
    IN  IF n.t # "number" THEN Null
        ELSE Num(IF n.m >= 0 THEN n.m - (n.m % 1000) ELSE -((-n.m) - ((-n.m) % 1000)))

StepOmitted(data) == data.user_step \in {Undefined, Null}

StepBad(data) ==
    /\ ~StepOmitted(data)
    /\ \/ data.user_step = Text_empty
       \/ CoercedStep(data.user_step) = Null
       \/ CoercedStep(data.user_step).m < 1000

RuleIds == 1..6

RuleViolated(i, data) ==
    CASE i = 1 -> Missing(data.session_id)
      [] i = 2 -> Missing(data.experiment_run_id)
      [] i = 3 -> Missing(data.user_id)
      [] i = 4 -> StepBad(data)
      [] i = 5 -> ~Blank(data.permission_decision)
                    /\ Str(Trim(ToStringChars(data.permission_decision)))
                           \notin PermissionDecisions
      [] i = 6 -> ~Blank(data.consent_decision)
                    /\ Str(Trim(ToStringChars(data.consent_decision)))
                           \notin ConsentDecisions

RuleMessage(i) ==
    CASE i = 1 -> "session_id is required"
      [] i = 2 -> "experiment_run_id is required"
      [] i = 3 -> "user_id is required"
      [] i = 4 -> "user_step must be an integer >= 1"
      [] i = 5 -> "permission_decision must be allow, block, or dismiss (or omitted)"
      [] i = 6 -> "consent_decision must be Agree or Disagree (or omitted)"

ViolatedRules(data) == {i \in RuleIds : RuleViolated(i, data)}

\* the messages of the violated rules, in the order the validator checks them
RECURSIVE ExpectedErrorsFrom(_, _)
ExpectedErrorsFrom(i, data) ==
    IF i \notin RuleIds THEN <<>>
    ELSE (IF RuleViolated(i, data) THEN <<RuleMessage(i)>> ELSE <<>>)
             \o ExpectedErrorsFrom(i + 1, data)

ExpectedErrors(data) == ExpectedErrorsFrom(1, data)

ValidateDone == vpc = "done"
Accepted == vpc = "done" /\ ~vresult.threw
Rejected == vpc = "done" /\ vresult.threw

----------------------------------------------------------------------------
(* The CSV variants: POST /track with its retry loop (lines 274-330 and     *)
(* 1391-1455) and uploadCSVToGitHub (lines 112-146)                         *)

\* the two CSV variants whose POST /track handler is modelled
CsvVariants == {"csv+github", "csv"}

\* the names the payload's fields have in each variant
CsvFieldNames(variant) ==
    IF variant = "csv+github"
    THEN [sessionId |-> "session_id", userId |-> "user_id", ip |-> "ip_address",
          os |-> "operating_system", decision |-> "permission_decision"]
    ELSE [sessionId |-> "sessionId", userId |-> "userId", ip |-> "ip",
          os |-> "os", decision |-> "decision"]

\* a payload of the CSV-only variant that passes its validator
CsvOnlyPayload ==
    [sessionId |-> session_1_abc, userId |-> user_1_abc, ip |-> Ip_1_2_3_4,
     browser |-> Text_Chrome, os |-> Text_macOS, device_type |-> Text_Desktop,
     consent_decision |-> Text_Agree, consent_timestamp |-> Instant("0", "0"),
     decision |-> Text_block, surveyClicked |-> Bool(TRUE)]

\* the request bodies sent to each variant: one its validator accepts, one
\* it rejects
CsvBodies(variant) ==
    IF variant = "csv+github"
    THEN {BasePayload,
          [BasePayload EXCEPT !["session_id"] = Text_abc,
                              !["decision_timestamp"] = Undefined]}
    ELSE {CsvOnlyPayload,
          [CsvOnlyPayload EXCEPT !.decision = Text_deny, !.os = Text_empty]}

\* the messages validateTrackingData collects, in the order of its checks
\* (lines 168-221, and lines 1272-1324 without the last check)
CsvValidationErrors(variant, data) ==
    LET n == CsvFieldNames(variant)
        Check(failed, message) == IF failed THEN <<message>> ELSE <<>>
        Required(f, message, malformed, otherwise) ==
            IF ~Truthy(data[f]) THEN <<message>>
            ELSE Check(malformed, otherwise)
    IN  Required(n.sessionId, "Session ID is required",
                 ~MatchesIdPattern(IdPrefix("session_id"), data[n.sessionId]),
                 "Invalid Session ID format")
        \o Required(n.userId, "User ID is required",
                    ~MatchesIdPattern(IdPrefix("user_id"), data[n.userId]),
                    "Invalid User ID format")
        \o Required(n.ip, "IP address is required",
                    data[n.ip].t = "string" /\ Len(data[n.ip].s) > MaxIpLength,
                    "IP address too long")
        \o Required("browser", "Browser information is required", FALSE, "")
        \o Required(n.os, "Operating System information is required", FALSE, "")
        \o Required("device_type", "Device type is required",
                    data["device_type"] \notin DeviceTypes,
                    "Invalid device type. Must be Desktop, Tablet, or Mobile")
        \o Required("consent_decision", "Consent decision is required",
                    data["consent_decision"] \notin ConsentDecisions,
                    "Invalid consent decision. Must be Agree or Disagree")
        \o Required("consent_timestamp", "Consent timestamp is required", FALSE, "")
        \o Required(n.decision,
                    IF variant = "csv+github" THEN "Permission decision is required"
                    ELSE "Decision is required",
                    data[n.decision] \notin PermissionDecisions,
                    IF variant = "csv+github"
                    THEN "Invalid permission decision value. Must be allow, block, or dismiss"
                    ELSE "Invalid decision value. Must be allow, block, or dismiss")
        \o (IF variant = "csv+github"
            THEN Required("decision_timestamp", "Decision timestamp is required", FALSE, "")
            ELSE <<>>)

\* the errors csvWriter.writeRecords rejects with
WriteErrors == {"EBUSY: resource busy or locked", "ENOSPC: no space left on device"}

\* the errors fs.readFile and the two calls of octokit reject with
UploadErrors == {"Bad credentials"}

\* setTimeout(resolve, 100)
RetryPause == 100

\* a request that has not arrived
CsvNewRequest ==
    [pc |-> "waiting", body |-> Undefined, valid |-> FALSE,
     retries |-> 0, success |-> FALSE, attempts |-> 0, pauses |-> <<>>,
     lastError |-> "", error |-> <<>>,
     uploads |-> 0, content |-> <<>>, uploaded |-> FALSE,
     sent |-> 0, response |-> NoRecord]

\* lines 311-314 and 1434-1438 (the timestamp of line 1437 is left out)
CsvOkResponse(variant) ==
    [status |-> 200,
     body |-> [success |-> TRUE,
               message |-> IF variant = "csv+github"
                           THEN "Decision recorded and uploaded to GitHub successfully"
                           ELSE "Decision recorded successfully"]]

\* lines 324-328 and 1448-1452; message is error.message
CsvErrorResponse(message) ==
    [status |-> 400,
     body |-> [success |-> FALSE, error |-> "Failed to record decision",
               message |-> message]]

\* the line writeRecords appends for request r
CsvRow(r) == [request |-> r]

\* lines 274-294: the payload is validated; a rejected payload goes to the
\* catch block, an accepted one enters the loop with retries = 3
CsvReceive(r, body) ==
    /\ csv.requests[r].pc = "waiting"
    /\ LET errors == CsvValidationErrors(csv.variant, body)
       IN  csv' = [csv EXCEPT !.requests[r] =
                      IF errors # <<>>
                      THEN [@ EXCEPT !.pc = "log", !.body = body, !.error = errors]
                      ELSE [@ EXCEPT !.pc = "write", !.body = body, !.valid = TRUE,
                                     !.retries = 3, !.success = FALSE]]
    /\ UNCHANGED <<vdata, vpc, verrors, vresult, requests, table, nextId,
                   errorLog, createdAt, env, proc>>

\* what follows the loop: the CSV+GitHub variant calls uploadCSVToGitHub
\* (line 307), the CSV-only variant answers (lines 1434-1438)
AfterLoop(request) ==
    IF csv.variant = "csv+github"
    THEN [request EXCEPT !.pc = "upload"]
    ELSE [request EXCEPT !.pc = "done", !.sent = @ + 1,
                         !.response = CsvOkResponse(csv.variant)]

\* CsvWriteOk that leaves success false, so that the loop goes round again
CsvWriteOk_noSuccessFlag(r) ==
    /\ csv.requests[r].pc = "write"
    /\ csv.requests[r].retries > 0 /\ ~csv.requests[r].success
    /\ csv' = [csv EXCEPT !.file = Append(@, CsvRow(r)),
                          !.requests[r] =
                              IF csv.requests[r].attempts < 2
                              THEN [@ EXCEPT !.attempts = @ + 1]
                              ELSE AfterLoop([@ EXCEPT !.success = TRUE,
                                                       !.attempts = @ + 1])]
    /\ UNCHANGED <<vdata, vpc, verrors, vresult, requests, table, nextId,
                   errorLog, createdAt, env, proc>>

\* lines 297-298: writeRecords resolves, success = true ends the loop
CsvWriteOk(r) ==
    /\ csv.requests[r].pc = "write"
    /\ csv.requests[r].retries > 0 /\ ~csv.requests[r].success
    /\ csv' = [csv EXCEPT !.file = Append(@, CsvRow(r)),
                          !.requests[r] =
                              AfterLoop([@ EXCEPT !.success = TRUE,
                                                  !.attempts = @ + 1])]
    /\ UNCHANGED <<vdata, vpc, verrors, vresult, requests, table, nextId,
                   errorLog, createdAt, env, proc>>

\* lines 299-303: writeRecords rejects with e and has written nothing;
\* retries--, then the third failure is thrown to the catch block of the
\* handler and an earlier one starts the pause
CsvWriteFail(r, e) ==
    /\ csv.requests[r].pc = "write"
    /\ csv.requests[r].retries > 0 /\ ~csv.requests[r].success
    /\ csv' = [csv EXCEPT !.requests[r] =
                  IF csv.requests[r].retries - 1 = 0
                  THEN [@ EXCEPT !.retries = @ - 1, !.attempts = @ + 1,
                                 !.lastError = e, !.error = <<e>>, !.pc = "log"]
                  ELSE [@ EXCEPT !.retries = @ - 1, !.attempts = @ + 1,
                                 !.lastError = e, !.pc = "pause"]]
    /\ UNCHANGED <<vdata, vpc, verrors, vresult, requests, table, nextId,
                   errorLog, createdAt, env, proc>>

\* line 302: the timer of 100 ms fires and the loop tests its condition
CsvPauseEnds(r) ==
    /\ csv.requests[r].pc = "pause"
    /\ csv' = [csv EXCEPT !.requests[r] =
                  [@ EXCEPT !.pauses = Append(@, RetryPause), !.pc = "write"]]
    /\ UNCHANGED <<vdata, vpc, verrors, vresult, requests, table, nextId,
                   errorLog, createdAt, env, proc>>

\* line 114: uploadCSVToGitHub reads the CSV file
CsvUploadRead(r) ==
    /\ csv.requests[r].pc = "upload"
    /\ csv' = [csv EXCEPT !.requests[r] =
                  [@ EXCEPT !.pc = "put", !.uploads = @ + 1, !.content = csv.file]]
    /\ UNCHANGED <<vdata, vpc, verrors, vresult, requests, table, nextId,
                   errorLog, createdAt, env, proc>>

\* lines 118-139 and 309-314: getContent answers (or answers 404),
\* createOrUpdateFileContents stores the content read, uploadCSVToGitHub
\* returns and the handler answers
CsvUploadOk(r) ==
    /\ csv.requests[r].pc = "put"
    /\ csv' = [csv EXCEPT !.github = csv.requests[r].content,
                          !.requests[r] =
                              [@ EXCEPT !.pc = "done", !.uploaded = TRUE,
                                        !.sent = @ + 1,
                                        !.response = CsvOkResponse(csv.variant)]]
    /\ UNCHANGED <<vdata, vpc, verrors, vresult, requests, table, nextId,
                   errorLog, createdAt, env, proc>>

\* lines 142-144: readFile, getContent (other than with 404) or
\* createOrUpdateFileContents rejects with e; the catch block of
\* uploadCSVToGitHub calls logError
CsvUploadFail(r, e) ==
    /\ csv.requests[r].pc \in {"upload", "put"}
    /\ csv' = [csv EXCEPT !.requests[r] =
                  [@ EXCEPT !.pc = "uploadLog", !.lastError = e,
                            !.uploads = IF csv.requests[r].pc = "upload"
                                        THEN @ + 1 ELSE @]]
    /\ UNCHANGED <<vdata, vpc, verrors, vresult, requests, table, nextId,
                   errorLog, createdAt, env, proc>>

\* lines 144-145 and 309-314: logError returns, the catch block of
\* uploadCSVToGitHub ends without throwing, uploadCSVToGitHub returns and
\* the handler answers
CsvUploadLogged(r, appended) ==
    /\ csv.requests[r].pc = "uploadLog"
    /\ errorLog' = IF appended
                   THEN Append(errorLog, [error |-> csv.requests[r].lastError,
                                          requestData |-> Null,
                                          phase |-> "github upload"])
                   ELSE errorLog
    /\ csv' = [csv EXCEPT !.requests[r] =
                  [@ EXCEPT !.pc = "done", !.sent = @ + 1,
                            !.response = CsvOkResponse(csv.variant)]]
    /\ UNCHANGED <<vdata, vpc, verrors, vresult, requests, table, nextId,
                   createdAt, env, proc>>

\* lines 316-328 and 1440-1452: logError returns and the catch block answers
CsvRespondError(r, appended) ==
    /\ csv.requests[r].pc = "log"
    /\ errorLog' = IF appended
                   THEN Append(errorLog, [error |-> csv.requests[r].error,
                                          requestData |-> csv.requests[r].body,
                                          endpoint |-> "/track"])
                   ELSE errorLog
    /\ csv' = [csv EXCEPT !.requests[r] =
                  [@ EXCEPT !.pc = "done", !.sent = @ + 1,
                            !.response = CsvErrorResponse(csv.requests[r].error)]]
    /\ UNCHANGED <<vdata, vpc, verrors, vresult, requests, table, nextId,
                   createdAt, env, proc>>

\* the server of either CSV variant after startServer: the CSV file holds its
\* header only, nothing has been uploaded
InitCsv ==
    /\ vdata = BasePayload
    /\ vpc = "off"
    /\ verrors = <<>>
    /\ vresult = NoRecord
    /\ requests = [r \in Requests |-> NewRequest]
    /\ table = <<>> /\ nextId = 1 /\ createdAt = <<>>
    /\ errorLog = <<>>
    /\ env = Undefined
    /\ proc = NewProcess
    /\ \E variant \in CsvVariants :
           csv = [variant |-> variant,
                  requests |-> [r \in Requests |-> CsvNewRequest],
                  file |-> <<>>, github |-> <<>>]

NextCsv ==
    \E r \in Requests :
        \/ \E body \in CsvBodies(csv.variant) : CsvReceive(r, body)
        \/ CsvWriteOk(r)
        \/ \E e \in WriteErrors : CsvWriteFail(r, e)
        \/ CsvPauseEnds(r)
        \/ CsvUploadRead(r)
        \/ CsvUploadOk(r)
        \/ \E e \in UploadErrors : CsvUploadFail(r, e)
        \/ \E appended \in BOOLEAN : CsvUploadLogged(r, appended)
        \/ \E appended \in BOOLEAN : CsvRespondError(r, appended)

SpecCsv == InitCsv /\ [][NextCsv]_vars

-----------------------------------------------------------------------------

(* Claims about POST /track (specification Spec) *)

Columns == DOMAIN ValidatedRecord(BasePayload)
NotNullColumns == {"session_id", "user_step", "experiment_run_id", "user_id"}

\* the rows of the table that request r inserted
RowsOf(r) ==
    {i \in 1..Len(table) : requests[r].id # 0 /\ table[i].id = requests[r].id}

\* the rows of the table that no request of the behaviour inserted
EarlierRows == {i \in 1..Len(table) : \A r \in Requests : table[i].id # requests[r].id}

Done(r) == requests[r].pc = "done"

\* C1 as stated: every POST /track request either passes validation and inserts
\* exactly one row with a single INSERT, or is rejected with no INSERT issued and
\* no row added.
C1_InsertedOrRejected ==
    \A r \in Requests :
        Done(r) =>
            LET v == validateTrackingData(requests[r].body)
            IN  \/ ~v.threw /\ requests[r].inserts = 1 /\ Cardinality(RowsOf(r)) = 1
                \/ v.threw /\ requests[r].inserts = 0 /\ RowsOf(r) = {}

\* C1 as amended: a request whose payload passes validation issues one INSERT,
\* which adds exactly one complete row (the validated record under a new id) or,
\* when the INSERT fails, none; a request whose payload is rejected issues no
\* INSERT and adds no row.  Every row of the table holds every column, the rows
\* that were there before are unchanged, and the table holds nothing else.
C1_AtomicInsert ==
    /\ \A r \in Requests :
        Done(r) =>
            LET v == validateTrackingData(requests[r].body)
            IN  \/ /\ ~v.threw /\ requests[r].failure = "none"
                   /\ requests[r].inserts = 1
                   /\ \E i \in 1..Len(table) :
                          /\ RowsOf(r) = {i}
                          /\ table[i] = [id |-> requests[r].id] @@ v.record
                \/ /\ ~v.threw /\ requests[r].failure = "database"
                   /\ requests[r].inserts = 1 /\ RowsOf(r) = {}
                \/ /\ v.threw /\ requests[r].failure = "validation"
                   /\ requests[r].inserts = 0 /\ RowsOf(r) = {}
    /\ \A i \in 1..Len(table) :
        /\ DOMAIN table[i] = Columns \cup {"id"}
        /\ \A c \in NotNullColumns : table[i][c] # Null
    /\ \A i \in EarlierRows :
        i = 1 /\ table[i] = [id |-> 1] @@ ValidatedRecord(BasePayload)
    /\ Len(table) =
           Cardinality(EarlierRows) + Cardinality({r \in Requests : requests[r].id # 0})

\* one request inserted its row and another was rejected by the validator
C1_Witness ==
    \E r1, r2 \in Requests :
        /\ Done(r1) /\ requests[r1].failure = "none" /\ Cardinality(RowsOf(r1)) = 1
        /\ Done(r2) /\ requests[r2].failure = "validation" /\ RowsOf(r2) = {}

\* C3: when the validator accepts the payload and the insert fails, POST /track
\* answers 500; 400 is answered only for validation failures.
C3_InsertFailureIs500 ==
    \A r \in Requests :
        Done(r) =>
            /\ requests[r].failure = "database" => requests[r].response.status = 500
            /\ requests[r].response.status = 400 => requests[r].failure = "validation"

\* errors joined with ', '
RECURSIVE CommaSeparated(_)
CommaSeparated(ms) ==
    IF Len(ms) = 0 THEN ""
    ELSE IF Len(ms) = 1 THEN ms[1]
    ELSE CommaSeparated(SubSeq(ms, 1, Len(ms) - 1)) \o ", " \o ms[Len(ms)]

\* C4: POST /track answers 200 with {success:true, message, id}, id being the
\* identity the insert returned, exactly when the payload is accepted and
\* inserted; when validation fails it answers 400 with {success:false, error,
\* message}, message being the messages of all violated rules joined with ', '
\* in the order the rules are checked.
C4_TrackResponses ==
    \A r \in Requests :
        Done(r) =>
            LET resp == requests[r].response
                body == requests[r].body
            IN  /\ resp.status = 200 <=> (ViolatedRules(body) = {} /\ RowsOf(r) # {})
                /\ resp.status = 200 =>
                    /\ DOMAIN resp.body = {"success", "message", "id"}
                    /\ resp.body.success = TRUE
                    /\ resp.body.message = "Decision recorded successfully"
                    /\ \E i \in 1..Len(table) :
                           /\ table[i].id = resp.body.id
                           /\ RowsOf(r) = {i}
                           /\ \A j \in 1..Len(table) : table[j].id = resp.body.id => j = i
                /\ ViolatedRules(body) # {} =>
                    /\ resp.status = 400
                    /\ DOMAIN resp.body = {"success", "error", "message"}
                    /\ resp.body.success = FALSE
                    /\ resp.body.error = "Failed to record decision"
                    /\ resp.body.message = CommaSeparated(ExpectedErrors(body))
                /\ (ViolatedRules(body) = {1, 6}) =>
                    resp.body.message =
                        "session_id is required, consent_decision must be Agree or Disagree (or omitted)"

\* one request was answered 200 and another 400 with two joined messages
C4_Witness ==
    \E r1, r2 \in Requests :
        /\ Done(r1) /\ requests[r1].response.status = 200
        /\ Done(r2) /\ requests[r2].response.status = 400
        /\ ViolatedRules(requests[r2].body) = {1, 6}

----------------------------------------------------------------------------
(* Claims about validateTrackingData (specification SpecValidate) *)

\* the payload satisfies every rule of the data model but possibly that of field f
OtherwiseValid(f, data) ==
    /\ \A g \in RequiredFields \ {f} : ~FieldProblem(g, data)
    /\ ~StepBad(data)

\* what toNullableText keeps of a text field
StoredText(v) == IF Blank(v) THEN Null ELSE Str(Trim(ToStringChars(v)))

\* C2 as stated: when k >= 1 of the twelve required fields are missing or
\* malformed, validation fails with exactly k messages.
C2_OneMessagePerRequiredField ==
    ValidateDone =>
        LET k == Cardinality({f \in RequiredFields : FieldProblem(f, vdata)})
        IN  k >= 1 => (vresult.threw /\ Len(verrors) = k)

\* C2 as amended: when k >= 1 of the six rules the validator checks are violated
\* (session_id, experiment_run_id, user_id present; user_step an integer >= 1;
\* permission_decision and consent_decision, when given, in their value sets),
\* validation fails and the error list holds exactly one message per violated
\* rule, in the order of the rules, none being skipped.
C2_OneMessagePerViolatedRule ==
    vpc \in {"checked", "done"} =>
        /\ Len(verrors) = Cardinality(ViolatedRules(vdata))
        /\ verrors = ExpectedErrors(vdata)
        /\ ValidateDone => (vresult.threw <=> ViolatedRules(vdata) # {})
        /\ Rejected => vresult.message = CommaSeparated(ExpectedErrors(vdata))

\* a missing session_id together with a bad consent_decision gave two messages
C2_Witness ==
    /\ Rejected
    /\ ViolatedRules(vdata) = {1, 6}
    /\ Len(verrors) = 2

\* C5 as stated: a payload is accepted only when session_id, experiment_run_id
\* and user_id are each present and match their patterns.
C5_IdentifiersMatchPatterns ==
    Accepted =>
        \A f \in IdFields : Truthy(vdata[f]) /\ MatchesIdPattern(IdPrefix(f), vdata[f])

IdRule(f) ==
    CASE f = "session_id" -> 1 [] f = "experiment_run_id" -> 2 [] f = "user_id" -> 3

\* C5 as amended: the three identifiers are only required to be present: a
\* missing one causes rejection with its message, a present one causes no
\* message whether or not it matches a pattern and is stored as its text.
C5_IdentifiersPresent ==
    ValidateDone =>
        /\ \A f \in IdFields :
            /\ Missing(vdata[f]) =>
                   Rejected /\ \E i \in 1..Len(verrors) : verrors[i] = RuleMessage(IdRule(f))
            /\ ~Missing(vdata[f]) =>
                   \A i \in 1..Len(verrors) : verrors[i] # RuleMessage(IdRule(f))
            /\ Accepted => vresult.record[f] = Str(ToStringChars(vdata[f]))
        /\ ((\A f \in IdFields : ~Missing(vdata[f])) /\ ViolatedRules(vdata) \cap {4, 5, 6} = {})
               => Accepted

\* a payload whose session_id matches no pattern was accepted
C5_Witness ==
    /\ Accepted
    /\ ~MatchesIdPattern(IdPrefix("session_id"), vdata.session_id)
    /\ vresult.record.session_id = Text_abc

\* C6 as stated: a payload whose ip_address is absent or longer than 45
\* characters is rejected, and no such address reaches the stored record.
C6_IpAddressChecked ==
    ValidateDone =>
        /\ (~Truthy(vdata.ip_address) \/ Len(ToStringChars(vdata.ip_address)) > MaxIpLength)
               => Rejected
        /\ (Accepted /\ vresult.record.ip_address # Null)
               => Len(vresult.record.ip_address.s) <= MaxIpLength

\* C6 as amended: ip_address is not validated: whatever it holds, a payload that
\* violates none of the six rules is accepted; an absent or blank address is
\* stored as null and any other one as its trimmed text, in full length.
C6_IpAddressStoredAsGiven ==
    ValidateDone =>
        /\ ViolatedRules(vdata) = {} => Accepted
        /\ Accepted =>
            /\ vresult.record.ip_address = StoredText(vdata.ip_address)
            /\ vdata.ip_address = Ip_46 =>
                   /\ Len(vresult.record.ip_address.s) = 46
                   /\ vresult.record.ip_address = vdata.ip_address

\* an address of 46 characters was accepted and stored
C6_Witness ==
    /\ Accepted
    /\ Len(ToStringChars(vdata.ip_address)) > MaxIpLength
    /\ vresult.record.ip_address = vdata.ip_address

\* C7 as stated: an otherwise valid payload is accepted only with device_type
\* Desktop, Tablet or Mobile: "Phone" is rejected, "Mobile" accepted.
C7_DeviceTypeClosedSet ==
    (ValidateDone /\ OtherwiseValid("device_type", vdata)) =>
        /\ vdata.device_type = Text_Phone => Rejected
        /\ vdata.device_type = Text_Mobile => Accepted
        /\ Accepted => vdata.device_type \in DeviceTypes

\* C7 as amended: device_type is not restricted: an otherwise valid payload is
\* accepted with "Phone" as with "Mobile" or with no device_type, and the record
\* holds the trimmed text given, or null.
C7_DeviceTypeStoredAsGiven ==
    (ValidateDone /\ OtherwiseValid("device_type", vdata)) =>
        /\ Accepted
        /\ vresult.record.device_type = StoredText(vdata.device_type)

\* an otherwise valid payload with device_type "Phone" was accepted
C7_Witness ==
    /\ Accepted
    /\ OtherwiseValid("device_type", vdata)
    /\ vdata.device_type = Text_Phone
    /\ vresult.record.device_type = Text_Phone

\* C8 as stated: an otherwise valid payload is rejected with consent_decision
\* "Maybe", accepted with "Agree" or "Disagree", and rejected when
\* consent_decision is absent; no other value is accepted.
C8_ConsentRequired ==
    (ValidateDone /\ OtherwiseValid("consent_decision", vdata)) =>
        /\ vdata.consent_decision = Text_Maybe => Rejected
        /\ vdata.consent_decision \in ConsentDecisions => Accepted
        /\ vdata.consent_decision \in {Undefined, Null} => Rejected
        /\ Accepted => vdata.consent_decision \in ConsentDecisions

\* C8 as amended: consent_decision is optional: a payload is accepted only when
\* it is absent (or blank) or, once trimmed, exactly Agree or Disagree; an
\* otherwise valid payload is rejected with "Maybe", accepted with "Agree" or
\* "Disagree", and accepted with consent_decision absent, which is stored as null.
C8_ConsentOptional ==
    ValidateDone =>
        /\ Accepted =>
            /\ \/ Blank(vdata.consent_decision)
               \/ Str(Trim(ToStringChars(vdata.consent_decision))) \in ConsentDecisions
            /\ vresult.record.consent_decision = StoredText(vdata.consent_decision)
        /\ vdata.consent_decision = Text_Maybe =>
               Rejected /\ \E i \in 1..Len(verrors) : verrors[i] = RuleMessage(6)
        /\ OtherwiseValid("consent_decision", vdata) =>
            /\ vdata.consent_decision \in ConsentDecisions => Accepted
            /\ Blank(vdata.consent_decision) =>
                   Accepted /\ vresult.record.consent_decision = Null

\* an otherwise valid payload without consent_decision was accepted
C8_Witness ==
    /\ Accepted
    /\ OtherwiseValid("consent_decision", vdata)
    /\ vdata.consent_decision = Undefined
    /\ vresult.record.consent_decision = Null

\* C9 as stated: a payload is accepted only when permission_decision is present
\* and exactly allow, block or dismiss; an absent, empty or whitespace-only value
\* causes rejection.
C9_PermissionRequired ==
    ValidateDone =>
        /\ Accepted => vdata.permission_decision \in PermissionDecisions
        /\ Blank(vdata.permission_decision) => Rejected

\* C9 as amended: permission_decision is optional: a payload is accepted only
\* when it is absent, empty or whitespace-only or, once trimmed, exactly allow,
\* block or dismiss; any other value causes rejection, and an otherwise valid
\* payload whose permission_decision is absent, empty or whitespace-only is
\* accepted with null stored.
C9_PermissionOptional ==
    ValidateDone =>
        /\ Accepted =>
            /\ \/ Blank(vdata.permission_decision)
               \/ Str(Trim(ToStringChars(vdata.permission_decision)))
                      \in PermissionDecisions
            /\ vresult.record.permission_decision = StoredText(vdata.permission_decision)
        /\ (~Blank(vdata.permission_decision)
              /\ Str(Trim(ToStringChars(vdata.permission_decision)))
                     \notin PermissionDecisions) =>
               Rejected /\ \E i \in 1..Len(verrors) : verrors[i] = RuleMessage(5)
        /\ OtherwiseValid("permission_decision", vdata) =>
            /\ vdata.permission_decision \in PermissionDecisions => Accepted
            /\ Blank(vdata.permission_decision) =>
                   Accepted /\ vresult.record.permission_decision = Null

\* an otherwise valid payload with a whitespace-only permission_decision was accepted
C9_Witness ==
    /\ Accepted
    /\ OtherwiseValid("permission_decision", vdata)
    /\ vdata.permission_decision = Text_blank
    /\ vresult.record.permission_decision = Null

\* C10: with user_step omitted the accepted record has user_step = 1; a supplied
\* user_step is coerced to an integer and the payload is accepted only if that
\* integer is >= 1, so that 0, a negative value or a non-numeric value causes a
\* validation failure.
C10_UserStep ==
    ValidateDone =>
        /\ (Accepted /\ StepOmitted(vdata)) => vresult.record.user_step = Num(1000)
        /\ (Accepted /\ ~StepOmitted(vdata)) =>
            /\ vresult.record.user_step = CoercedStep(vdata.user_step)
            /\ vresult.record.user_step.m >= 1000
        /\ Accepted => vresult.record.user_step.m % 1000 = 0
        /\ (\/ vdata.user_step \in {Num(0), Num(-1000), Num(500), Text_abc, Text_empty}
            \/ (vdata.user_step.t = "number" /\ vdata.user_step.m < 1000)
            \/ (~StepOmitted(vdata) /\ ToNumber(vdata.user_step) = NaN)) =>
               Rejected /\ \E i \in 1..Len(verrors) : verrors[i] = RuleMessage(4)
        /\ (StepOmitted(vdata) \/ ~StepBad(vdata)) =>
               \A i \in 1..Len(verrors) : verrors[i] # RuleMessage(4)

\* a payload without user_step was accepted with user_step 1
C10_Witness ==
    /\ Accepted
    /\ vdata.user_step = Undefined
    /\ vresult.record.user_step = Num(1000)

----------------------------------------------------------------------------
(* The derived duration (SpecValidate)                                      *)

\* a payload value that is an instant the Date constructor parses
Parses(v) == v.t = "string" /\ IsIsoInstant(v.s)

\* the seconds between 2000-01-01T00:00:00Z and a parsed instant
InstantSeconds(v) == IsoInstantSeconds(v.s)

\* C11: for every accepted payload, decision_time_taken_sec equals
\* (decision_timestamp - icon_timestamp) in seconds when both timestamps parse,
\* and is null when either is absent or unparseable; 00:00:00 and 00:00:05 of
\* the same day give 5.
C11_DecisionTimeDerived ==
    Accepted =>
        LET icon == vdata.icon_timestamp
            decision == vdata.decision_timestamp
            taken == vresult.record.decision_time_taken_sec
        IN  /\ (Parses(icon) /\ Parses(decision)) =>
                   taken = Num((InstantSeconds(decision) - InstantSeconds(icon)) * 1000)
            /\ ~(Parses(icon) /\ Parses(decision)) => taken = Null
            /\ (icon = Instant("0", "0") /\ decision = Instant("0", "5")) =>
                   taken = Num(5000)
            /\ (icon = Instant_NewYearsEve /\ decision = Instant("0", "5")) =>
                   taken = Num(7000)

\* an accepted payload whose two instants lie in different years, seven
\* seconds apart
C11_Witness ==
    /\ Accepted
    /\ vdata.icon_timestamp = Instant_NewYearsEve
    /\ vdata.decision_timestamp = Instant("0", "5")
    /\ vresult.record.decision_time_taken_sec = Num(7000)

\* the values icon_timestamp takes in the payloads
IconTimestamps ==
    {FieldValues["icon_timestamp"][j] : j \in 1..Len(FieldValues["icon_timestamp"])}

\* C12: the timing calculation never blocks acceptance: whether a payload is
\* accepted does not depend on icon_timestamp or on the order of the two
\* timestamps; an absent or unparseable icon_timestamp gives a null duration, a
\* decision_timestamp earlier than icon_timestamp a negative one, and the
\* record is accepted all the same.
C12_TimingNeverBlocks ==
    ValidateDone =>
        /\ Accepted <=> ViolatedRules(vdata) = {}
        /\ \A icon \in IconTimestamps :
               validateTrackingData([vdata EXCEPT !["icon_timestamp"] = icon]).threw
                   = vresult.threw
        /\ (Accepted /\ ~Parses(vdata.icon_timestamp)) =>
               /\ vresult.record.decision_time_taken_sec = Null
               /\ vresult.record.icon_timestamp = Null
        /\ (/\ Accepted
            /\ Parses(vdata.icon_timestamp) /\ Parses(vdata.decision_timestamp)
            /\ InstantSeconds(vdata.decision_timestamp)
                   < InstantSeconds(vdata.icon_timestamp)) =>
               /\ vresult.record.decision_time_taken_sec.t = "number"
               /\ vresult.record.decision_time_taken_sec.m < 0

\* a payload whose decision precedes its icon by five seconds was accepted
\* with the duration -5
C12_Witness ==
    /\ Accepted
    /\ vdata.icon_timestamp = Instant("1", "0")
    /\ vdata.decision_timestamp = Instant("0", "5")
    /\ vresult.record.decision_time_taken_sec = Num(-5000)

\* the values a client supplies as decision_time_taken_sec, Undefined when it
\* supplies none
SuppliedTimes ==
    {FieldValues["decision_time_taken_sec"][j]
         : j \in 1..Len(FieldValues["decision_time_taken_sec"])} \cup {Null, Num(-1000)}

\* C18: decision_time_taken_sec of an accepted record is a function of
\* icon_timestamp and decision_timestamp only: payloads that differ only in a
\* client-supplied decision_time_taken_sec, or in whether one is supplied,
\* produce identical accepted records.
C18_ClientTimeIgnored ==
    ValidateDone =>
        \A supplied \in SuppliedTimes :
            LET other == validateTrackingData(
                             [vdata EXCEPT !["decision_time_taken_sec"] = supplied])
            IN  /\ other.threw = vresult.threw
                /\ other.record = vresult.record

\* a payload that supplies 99 as its decision_time_taken_sec was accepted with
\* the five seconds between its two timestamps
C18_Witness ==
    /\ Accepted
    /\ vdata.decision_time_taken_sec = Num(99000)
    /\ vdata.icon_timestamp = Instant("0", "0")
    /\ vdata.decision_timestamp = Instant("0", "5")
    /\ vresult.record.decision_time_taken_sec = Num(5000)

----------------------------------------------------------------------------
(* The survey fields (SpecValidate)                                         *)

\* C19: in every accepted record survey_timestamp is non-null only if
\* survey_clicked is truthy; a payload whose survey_clicked is absent or falsy
\* never yields a stored survey_timestamp.
C19_SurveyTimestampOnlyIfClicked ==
    Accepted =>
        /\ vresult.record.survey_timestamp # Null => Truthy(vdata.survey_clicked)
        /\ ~Truthy(vdata.survey_clicked) => vresult.record.survey_timestamp = Null

----------------------------------------------------------------------------
(* POST /track followed by GET /data (SpecRoutes)                           *)

TimestampFields ==
    {"consent_timestamp", "icon_timestamp", "decision_timestamp", "survey_timestamp"}

TextFields ==
    Fields \ (IdFields \cup TimestampFields \cup {"user_step", "decision_time_taken_sec"})

\* a submitted value and a stored value that differ at most in their type
SameValue(submitted, stored) ==
    CASE stored = Null -> submitted \in {Undefined, Null}
      [] stored.t = "string" ->
            submitted.t \in {"string", "number", "boolean"}
                /\ ToStringChars(submitted) = stored.s
      [] stored.t = "number" -> ToNumber(submitted) = stored
      [] stored.t = "date" -> Parses(submitted) /\ InstantSeconds(submitted) = stored.sec
      [] OTHER -> FALSE

\* this step executes the SELECT of the GET /data request g
Selecting(g) == requests[g].pc = "waiting" /\ requests'[g].pc = "selected"

\* the payload of request r has been inserted
Inserted(r) == requests[r].route = "/track" /\ requests[r].id # 0

\* the rows the SELECT of request g returned for the insert of request r
ReturnedRows(g, r) ==
    {i \in 1..Len(requests'[g].rows) : requests'[g].rows[i].id = requests[r].id}

\* C13 as stated: for every payload accepted by POST /track, a subsequent
\* GET /data returns a row whose field values equal the values submitted in the
\* payload, up to storage-level type normalization.
C13_RoundTripAsSubmitted ==
    [][\A g, r \in Requests :
           (Selecting(g) /\ Inserted(r)) =>
               \E i \in ReturnedRows(g, r) :
                   \A f \in Fields :
                       requests[r].body[f] # Undefined =>
                           SameValue(requests[r].body[f], requests'[g].rows[i][f])]_vars

\* a submitted value that the validator stores without changing it
Clean(f, v) ==
    CASE f \in IdFields -> TRUE
      [] f \in TextFields -> ~Blank(v) /\ Trim(ToStringChars(v)) = ToStringChars(v)
      [] f \in TimestampFields -> Parses(v)
      [] f = "user_step" -> ToNumber(v).t = "number" /\ ToNumber(v).m % 1000 = 0
      [] OTHER -> FALSE

\* the value the column f holds for a payload
Normalized(f, body) ==
    CASE f \in IdFields -> Str(ToStringChars(body[f]))
      [] f \in TextFields -> StoredText(body[f])
      [] f \in TimestampFields ->
            IF Parses(body[f]) THEN DateAt(InstantSeconds(body[f])) ELSE Null
      [] f = "user_step" ->
            IF StepOmitted(body) THEN Num(1000) ELSE CoercedStep(body[f])
      [] f = "decision_time_taken_sec" ->
            IF Parses(body.icon_timestamp) /\ Parses(body.decision_timestamp)
            THEN Num((InstantSeconds(body.decision_timestamp)
                          - InstantSeconds(body.icon_timestamp)) * 1000)
            ELSE Null

\* C13 as amended: a subsequent GET /data returns exactly one row for every
\* accepted payload; the row holds the payload's values as the validator
\* normalizes them (identifiers as strings, text trimmed and blank text null,
\* timestamps as instants and unparseable ones null, user_step truncated to an
\* integer and 1 when omitted, decision_time_taken_sec derived), and a
\* submitted identifier, non-blank text without surrounding whitespace,
\* parseable timestamp or integer user_step is reproduced up to its type.
C13_RoundTripNormalized ==
    [][\A g, r \in Requests :
           (Selecting(g) /\ Inserted(r)) =>
               /\ Cardinality(ReturnedRows(g, r)) = 1
               /\ \A i \in ReturnedRows(g, r) :
                      LET row == requests'[g].rows[i]
                          body == requests[r].body
                      IN  /\ DOMAIN row = Fields \cup {"id", "created_at"}
                          /\ \A f \in Fields :
                                 /\ row[f] = Normalized(f, body)
                                 /\ (body[f] # Undefined /\ Clean(f, body[f])) =>
                                        SameValue(body[f], row[f])]_vars

\* GET /data has answered with the row of a payload that was sent with a
\* padded consent_decision, an unparseable icon_timestamp and user_step 1.5
C13_Witness ==
    \E g, r \in Requests :
        /\ Done(g) /\ requests[g].route = "/data" /\ requests[g].response.status = 200
        /\ Inserted(r) /\ requests[r].body = MessyPayload
        /\ \E i \in 1..Len(requests[g].response.body.data) :
               LET row == requests[g].response.body.data[i]
               IN  /\ row.id = requests[r].id
                   /\ row.consent_decision = Text_Agree
                   /\ row.icon_timestamp = Null
                   /\ row.user_step = Num(1000)

----------------------------------------------------------------------------
(* The table under every route (SpecRoutes)                                 *)

\* this step commits the INSERT of the POST /track request r
Committing(r) ==
    /\ requests[r].route = "/track"
    /\ requests[r].pc = "insert"
    /\ requests'[r].pc = "inserted"

\* this step belongs to request r
Stepping(r) == requests'[r] # requests[r]

\* C14: the table is append-only under any sequence of POST /track, GET /data,
\* GET /health and GET / requests: a row, once inserted, is never modified or
\* removed, and the only operation that changes the table is a successful
\* POST /track, which adds exactly one row.
C14_AppendOnly ==
    [][/\ Len(table') >= Len(table)
       /\ \A i \in 1..Len(table) : table'[i] = table[i] /\ createdAt'[i] = createdAt[i]
       /\ Len(createdAt') = Len(table')
       /\ table' # table =>
              /\ Len(table') = Len(table) + 1
              /\ \E r \in Requests :
                     /\ Committing(r)
                     /\ table'[Len(table')] =
                            [id |-> requests'[r].id] @@ requests[r].validated
                     /\ \A q \in Requests \ {r} : ~Stepping(q)
       /\ \A r \in Requests :
              /\ Committing(r) => Len(table') = Len(table) + 1
              /\ (Stepping(r) /\ ~Committing(r)) => table' = table
              /\ (/\ Stepping(r) /\ requests'[r].route = "/track" /\ Done(r)'
                  /\ requests'[r].response.status = 200) =>
                     Cardinality({i \in 1..Len(table) :
                                     table[i].id = requests'[r].id}) = 1]_vars

\* with a row in the table from the start, a POST /track has added a second
\* row and a later GET /data has answered with both
C14_Witness ==
    \E g, r \in Requests :
        /\ Len(table) = 2
        /\ table[1] = [id |-> 1] @@ ValidatedRecord(BasePayload)
        /\ Done(r) /\ requests[r].route = "/track" /\ requests[r].id = 2
        /\ Done(g) /\ requests[g].route = "/data"
        /\ requests[g].response.status = 200
        /\ Len(requests[g].response.body.data) = 2

----------------------------------------------------------------------------
(* Concurrent POST /track requests (Spec)                                   *)

\* the request has been received
Arrived(r) == requests[r].pc # "waiting"

\* the INSERT of the request has been committed
Committed(r) == requests[r].id # 0

----------------------------------------------------------------------------
(* GET /data, GET /health and the error middleware (SpecRoutes)             *)

\* C16: GET /data answers 200 with {success: true, data}, data being every
\* stored row, most recent first, when the SELECT succeeds, and 500 with
\* {success: false, error} when it fails; it never changes the stored state.
C16_DataAnswers ==
    [][\A g \in Requests :
           /\ Selecting(g) =>
                  LET rows == requests'[g].rows
                  IN  /\ Len(rows) = Len(table)
                      /\ \A i \in 1..Len(table) :
                             \E j \in 1..Len(rows) :
                                 rows[j] = table[i] @@ [created_at |-> createdAt[i]]
                      /\ \A i, j \in 1..Len(rows) :
                             i < j => rows[i].created_at >= rows[j].created_at
                      /\ (\A i, j \in 1..Len(table) :
                              i < j => createdAt[i] < createdAt[j]) =>
                             \A i \in 1..Len(rows) :
                                 rows[i].id = table[Len(table) + 1 - i].id
           /\ (Stepping(g) /\ requests'[g].route = "/data") =>
                  /\ table' = table /\ createdAt' = createdAt /\ nextId' = nextId
                  /\ Done(g)' =>
                         \/ /\ requests[g].pc = "selected"
                            /\ requests'[g].response =
                                   [status |-> 200,
                                    body |-> [success |-> TRUE,
                                              data |-> requests[g].rows]]
                         \/ /\ requests[g].pc = "dataLog"
                            /\ requests[g].failure = "database"
                            /\ requests'[g].response =
                                   [status |-> 500,
                                    body |-> [success |-> FALSE,
                                              error |-> "Failed to read data from database"]]
                  /\ requests[g].pc = "selected" => Done(g)'
                  /\ requests[g].pc = "dataLog" => Done(g)']_vars

\* GET /data has answered with two rows, the later one first
C16_Witness ==
    \E g \in Requests :
        /\ Done(g) /\ requests[g].route = "/data"
        /\ requests[g].response.status = 200
        /\ Len(requests[g].response.body.data) = 2
        /\ requests[g].response.body.data[1].id = 2
        /\ requests[g].response.body.data[2].id = 1
        /\ requests[g].response.body.data[1].created_at
               > requests[g].response.body.data[2].created_at

\* C17: GET /health answers 500 with status "unhealthy" whenever the ping
\* fails and 200 with status "healthy" whenever it succeeds, whatever the
\* number of rows of the table, zero included.
C17_HealthFollowsPing ==
    \A h \in Requests :
        (requests[h].route = "/health" /\ Done(h)) =>
            /\ requests[h].failure \in {"none", "database"}
            /\ requests[h].failure = "database" =>
                   /\ requests[h].response.status = 500
                   /\ requests[h].response.body.status = "unhealthy"
                   /\ requests[h].response.body.error = "Could not access PostgreSQL database"
            /\ requests[h].failure = "none" =>
                   /\ requests[h].response.status = 200
                   /\ requests[h].response.body.status = "healthy"
                   /\ requests[h].response.body.environment \in Environments \ {Undefined}
                   /\ env # Undefined => requests[h].response.body.environment = env

\* with rows in the table one GET /health was answered "unhealthy" and another
\* "healthy"
C17_Witness ==
    \E h1, h2 \in Requests :
        /\ Len(table) > 0
        /\ Done(h1) /\ requests[h1].route = "/health"
        /\ requests[h1].response.status = 500
        /\ Done(h2) /\ requests[h2].route = "/health"
        /\ requests[h2].response.status = 200

\* C20: an error that reaches the error middleware is answered 500 with
\* {success: false, error: "Internal server error"}, and the answer never holds
\* the error's own message, whatever the deployment environment.
C20_MiddlewareAnswer ==
    \A r \in Requests :
        requests[r].route = "error" =>
            /\ requests[r].pc \in {"middlewareLog", "done"}
            /\ requests[r].response.status = 500
            /\ DOMAIN requests[r].response.body = {"success", "error"}
            /\ requests[r].response.body.success = FALSE
            /\ requests[r].response.body.error = "Internal server error"
            /\ requests[r].response.body.error # requests[r].error

\* in a development deployment the middleware has answered a request whose
\* body could not be parsed
C20_Witness ==
    \E r \in Requests :
        /\ env = Str(<<"d", "e", "v", "e", "l", "o", "p", "m", "e", "n", "t">>)
        /\ requests[r].route = "error"
        /\ requests[r].error = "Unexpected end of JSON input"
        /\ requests[r].response.status = 500

----------------------------------------------------------------------------
(* One answer per request (SpecRoutes)                                      *)

HandlerRoutes == {"/track", "/data", "/health"}

\* the request has its answer
Answered(r) == Done(r) /\ requests[r].sent = 1 /\ requests[r].response # NoRecord

\* how far the handler of request r has come
Position(r) ==
    CASE requests[r].pc = "waiting" -> 0
      [] requests[r].pc \in {"insert", "selected"} -> 1
      [] requests[r].pc \in {"inserted", "log", "dataLog", "healthLog",
                             "middlewareLog"} -> 2
      [] requests[r].pc = "done" -> 3

\* C24: every request to POST /track, GET /data and GET /health receives
\* exactly one response on every path (validation success or failure, database
\* success or failure, log append success or failure), provided the database
\* call and the log append eventually return: no request is answered twice,
\* a request is answered when its handler ends, and until then the handler is
\* waiting for a call whose return lets it go on, every step taking it closer
\* to its end.
C24_ExactlyOneResponse ==
    /\ [](\A r \in Requests :
              requests[r].route \in HandlerRoutes =>
                  /\ requests[r].sent <= 1
                  /\ requests[r].sent = 1 <=> requests[r].response # NoRecord
                  /\ Done(r) <=> requests[r].sent = 1
                  /\ ~Done(r) => ENABLED Returns(r))
    /\ [][\A r \in Requests :
              Stepping(r) =>
                  /\ Position(r)' > Position(r)
                  /\ requests'[r].sent \in {requests[r].sent, requests[r].sent + 1}]_vars

\* a POST /track whose INSERT failed and whose log append failed has been
\* answered once, next to a request that was answered 200
C24_Witness ==
    \E r1, r2 \in Requests :
        /\ requests[r1].route = "/track" /\ requests[r1].failure = "database"
        /\ Answered(r1) /\ errorLog = <<>>
        /\ requests[r2].route \in HandlerRoutes /\ Answered(r2)
        /\ requests[r2].response.status = 200

----------------------------------------------------------------------------
(* The error logger (SpecRoutes)                                            *)

\* the handler of request r is in its catch block, awaiting logError
Logging(r) == requests[r].pc \in {"log", "dataLog", "healthLog"}

\* the awaited logError of request r returns, its line appended or not
LogReturns(r, appended) ==
    \/ TrackRespondError(r, appended)
    \/ DataRespondError(r, appended)
    \/ HealthRespondError(r, appended)

\* the answer to a failed request, by its route and its error
FailureAnswer(r) ==
    CASE requests[r].route = "/track" ->
            [status |-> 400,
             body |-> [success |-> FALSE, error |-> "Failed to record decision",
                       message |-> requests[r].error]]
      [] requests[r].route = "/data" ->
            [status |-> 500,
             body |-> [success |-> FALSE, error |-> "Failed to read data from database"]]
      [] requests[r].route = "/health" ->
            [status |-> 500,
             body |-> [status |-> "unhealthy",
                       error |-> "Could not access PostgreSQL database"]]

\* C25: a failure of the error logger never changes a request's outcome or the
\* stored state: for every failing POST /track, GET /data or GET /health the
\* response is sent only after logError has returned, and when the append to
\* the log file fails the status and body are those sent when it succeeds and
\* the table is unchanged.
C25_LoggerFailureSwallowed ==
    /\ [](\A r \in Requests :
              Logging(r) =>
                  /\ requests[r].sent = 0 /\ requests[r].response = NoRecord
                  /\ requests[r].failure \in {"validation", "database"}
                  /\ ENABLED LogReturns(r, TRUE)
                  /\ ENABLED LogReturns(r, FALSE))
    /\ [][\A r \in Requests :
              (Logging(r) /\ Stepping(r)) =>
                  /\ requests'[r] = [requests[r] EXCEPT !.pc = "done", !.sent = 1,
                                                        !.response = FailureAnswer(r)]
                  /\ table' = table /\ createdAt' = createdAt /\ nextId' = nextId
                  /\ \/ errorLog' = errorLog
                     \/ /\ Len(errorLog') = Len(errorLog) + 1
                        /\ SubSeq(errorLog', 1, Len(errorLog)) = errorLog
                        /\ errorLog'[Len(errorLog')].error = requests[r].error]_vars

\* two GET /health requests failed alike; the append of one succeeded, that of
\* the other failed, and both got the same answer
C25_Witness ==
    \E r1, r2 \in Requests :
        /\ r1 # r2
        /\ Done(r1) /\ requests[r1].route = "/health" /\ requests[r1].failure = "database"
        /\ Done(r2) /\ requests[r2].route = "/health" /\ requests[r2].failure = "database"
        /\ Len(errorLog) = 1
        /\ requests[r1].response = requests[r2].response
        /\ requests[r1].response.status = 500

-----------------------------------------------------------------------------
(* The process-level handlers (SpecProcess)                                 *)

Exceptions == {f \in Faults : proc.faults[f].type = "uncaughtException"}

Rejections == {f \in Faults : proc.faults[f].type = "unhandledRejection"}

\* this step ends the handler of fault f
HandlerEnds(f) == proc.faults[f].pc = "logging" /\ proc'.faults[f].pc = "done"

\* what the log holds after logError has returned for fault f
LoggedOrSwallowed(f) ==
    \/ errorLog' = errorLog
    \/ errorLog' = Append(errorLog, [error |-> proc.faults[f].error.message,
                                     requestData |-> Null,
                                     type |-> proc.faults[f].type])

-----------------------------------------------------------------------------
(* The retry loop of the CSV variants (SpecCsv)                             *)

\* the lines of the CSV file written for request r
Rows(r) == {i \in 1..Len(csv.file) : csv.file[i] = CsvRow(r)}

InLoop(r) == csv.requests[r].pc \in {"write", "pause"}

\* how far request r is through its loop: two steps for each attempt
LoopPosition(r) ==
    2 * csv.requests[r].attempts + (IF csv.requests[r].pc = "write" THEN 1 ELSE 0)

\* all three attempts of request r have failed
Exhausted(r) ==
    csv.requests[r].valid /\ ~csv.requests[r].success /\ csv.requests[r].attempts = 3

\* C22: writeRecords is called at most 3 times for a request, with a pause
\* of 100 ms after each failed call that is followed by another; the loop is
\* left at the first call that succeeds, so the file holds at most one line
\* of the request; after three failed calls the error of the third is the
\* message of the 400 answer; and the loop ends after at most six steps,
\* each of which is enabled as long as the loop runs.
C22_BoundedRetry ==
    /\ [](\A r \in Requests :
              LET q == csv.requests[r]
              IN  /\ q.attempts <= 3
                  /\ q.valid => q.retries = 3 - (q.attempts - Cardinality(Rows(r)))
                  /\ Cardinality(Rows(r)) <= 1
                  /\ q.success <=> Cardinality(Rows(r)) = 1
                  /\ q.success => ~InLoop(r)
                  /\ ~q.valid => q.attempts = 0
                  /\ \A i \in 1..Len(q.pauses) : q.pauses[i] = RetryPause
                  /\ q.attempts > 0 =>
                        Len(q.pauses) = q.attempts - (IF q.pc = "write" THEN 0 ELSE 1)
                  /\ InLoop(r) => LoopPosition(r) < 6
                  /\ q.pc = "write" =>
                        /\ ENABLED CsvWriteOk(r)
                        /\ ENABLED (\E e \in WriteErrors : CsvWriteFail(r, e))
                  /\ q.pc = "pause" => ENABLED CsvPauseEnds(r)
                  /\ Exhausted(r) =>
                        /\ q.pc \in {"log", "done"}
                        /\ q.error = <<q.lastError>>
                        /\ q.uploads = 0
                        /\ q.pc = "log" =>
                              ENABLED (\E appended \in BOOLEAN : CsvRespondError(r, appended))
                        /\ q.pc = "done" =>
                              /\ q.sent = 1
                              /\ q.response = CsvErrorResponse(<<q.lastError>>))
    /\ [][\A r \in Requests :
              InLoop(r) /\ csv'.requests[r] # csv.requests[r] =>
                  /\ LoopPosition(r)' > LoopPosition(r)
                  /\ csv'.requests[r].attempts \in
                         {csv.requests[r].attempts, csv.requests[r].attempts + 1}
                  /\ ~InLoop(r)' =>
                         csv'.requests[r].success \/ csv'.requests[r].attempts = 3]_vars

\* one request was written at its second attempt and answered 200, another
\* failed three times and was answered 400 with the error of its third attempt
C22_Witness ==
    \E r, s \in Requests :
        /\ csv.requests[r].success
        /\ csv.requests[r].attempts = 2
        /\ csv.requests[r].pauses = <<RetryPause>>
        /\ csv.requests[r].response = CsvOkResponse(csv.variant)
        /\ Exhausted(s)
        /\ csv.requests[s].pauses = <<RetryPause, RetryPause>>
        /\ csv.requests[s].response = CsvErrorResponse(<<csv.requests[s].lastError>>)
        /\ csv.file = <<CsvRow(r)>>

-----------------------------------------------------------------------------
(* The answer of the CSV+GitHub variant (SpecCsv)                           *)

\* C23: in the CSV+GitHub variant a request is answered 200, "Decision
\* recorded and uploaded to GitHub successfully", only if its line has been
\* written to the CSV file and its upload of the file has succeeded; an upload
\* is attempted only for a request whose payload passed validation and whose
\* line has been written.
C23_OkOnlyAfterWriteAndUpload ==
    csv.variant = "csv+github" =>
        \A r \in Requests :
            LET q == csv.requests[r]
            IN  /\ q.response = CsvOkResponse("csv+github") =>
                      /\ q.success /\ Cardinality(Rows(r)) = 1
                      /\ q.uploaded
                /\ q.uploads > 0 => q.valid /\ q.success /\ Cardinality(Rows(r)) = 1
                /\ ~q.valid => q.uploads = 0

====
